---- MODULE Spec2Model ----
(***************************************************************************)
(* A model of the bitflags crate: flags values over a fixed-width storage  *)
(* type, the flag tables of the crate's own tests and examples, the        *)
(* conversions, the set algebra and operators, the iterators and the text  *)
(* codec.  Three generations of the implementation live in the sources and *)
(* are modelled side by side:                                              *)
(*   - the generic trait layer   (src/src/traits.rs, iter.rs, fmt.rs,      *)
(*                                 parser.rs)        -- unprefixed names    *)
(*   - the macro-generated types (src/src/internal.rs, public.rs)          *)
(*                                                   -- Internal_, Public_ *)
(*   - the older macro           (src/src/lib.rs)    -- Lib_               *)
(* A flags value is represented by its raw bits; a string by the sequence  *)
(* of its characters.                                                      *)
(***************************************************************************)
EXTENDS Integers, Sequences, FiniteSets, TLC

VARIABLES flags, self, call, iter, yielded, text, parsed, atomic, threads

vars == <<flags, self, call, iter, yielded, text, parsed, atomic, threads>>

----------------------------------------------------------------------------
(* The storage type: Width-bit unsigned integers.                          *)

Width == 4

EMPTY == 0

ALL == 2^Width - 1

Bits == 0..ALL

RECURSIVE band(_, _)
band(a, b) ==
    IF a = 0 \/ b = 0 THEN 0
    ELSE (a % 2) * (b % 2) + 2 * band(a \div 2, b \div 2)

RECURSIVE bor(_, _)
bor(a, b) ==
    IF a = 0 THEN b
    ELSE IF b = 0 THEN a
    ELSE (IF a % 2 = 1 \/ b % 2 = 1 THEN 1 ELSE 0) + 2 * bor(a \div 2, b \div 2)

RECURSIVE bxor(_, _)
bxor(a, b) ==
    IF a = 0 THEN b
    ELSE IF b = 0 THEN a
    ELSE ((a + b) % 2) + 2 * bxor(a \div 2, b \div 2)

bnot(a) == ALL - a

----------------------------------------------------------------------------
(* Flag tables: ordered entries (name, bits), as declared in the sources.  *)

Flag(name, bits) == [name |-> name, bits |-> bits]

TestFlags ==
    << Flag(<<"A">>, 1), Flag(<<"B">>, 2), Flag(<<"C">>, 4),
       Flag(<<"A", "B", "C">>, 7) >>

TestZero == << Flag(<<"Z", "E", "R", "O">>, 0) >>

TestEmpty == << >>

TestOverlapping == << Flag(<<"A", "B">>, 3), Flag(<<"B", "C">>, 6) >>

ManualFlags == << Flag(<<"A">>, 1), Flag(<<"B">>, 2), Flag(<<"C">>, 4) >>

ZeroFlags == << Flag(<<"N", "O", "N", "E">>, 0), Flag(<<"S", "O", "M", "E">>, 1) >>

TwoFlags == << Flag(<<"T", "W", "O">>, 2) >>

OverlapFlags == << Flag(<<"A">>, 1), Flag(<<"B">>, 5) >>

Test == << Flag(<<"A">>, 1) >>

IterNamedFlags ==
    << Flag(<<"A">>, 1), Flag(<<"Z", "E", "R", "O">>, 0), Flag(<<"B">>, 2),
       Flag(<<"C">>, 4), Flag(<<"C", "C">>, 4), Flag(<<"D">>, 2^(Width - 1) + 4),
       Flag(<<"A", "B", "C">>, 7), Flag(<<"A", "B">>, 3), Flag(<<"A", "C">>, 5),
       Flag(<<"C", "B">>, 6) >>

FlagSets ==
    { TestFlags, TestZero, TestEmpty, TestOverlapping, ManualFlags,
      ZeroFlags, TwoFlags, OverlapFlags, Test, IterNamedFlags }

----------------------------------------------------------------------------
(* Option and Result values.                                               *)

None == [tag |-> "None"]

Some(v) == [tag |-> "Some", val |-> v]

Ok(v) == [tag |-> "Ok", val |-> v]

Err(e) == [tag |-> "Err", err |-> e]

----------------------------------------------------------------------------
(* The generic trait layer, src/src/traits.rs.                             *)

from_bits_retain(bits) == bits

empty == from_bits_retain(EMPTY)

all == from_bits_retain(ALL)

(* The loop with a flag kept as soon as any of its bits is present. *)
RECURSIVE truncate_loop_Intersecting(_, _, _, _)
truncate_loop_Intersecting(F, bits, i, truncated) ==
    IF i > Len(F) THEN truncated
    ELSE IF band(bits, F[i].bits) # EMPTY
         THEN truncate_loop_Intersecting(F, bits, i + 1, bor(truncated, F[i].bits))
         ELSE truncate_loop_Intersecting(F, bits, i + 1, truncated)

RECURSIVE truncate_loop(_, _, _, _)
truncate_loop(F, bits, i, truncated) ==
    IF i > Len(F) THEN truncated
    ELSE IF band(bits, F[i].bits) = F[i].bits
         THEN truncate_loop(F, bits, i + 1, bor(truncated, F[i].bits))
         ELSE truncate_loop(F, bits, i + 1, truncated)

from_bits_truncate(F, bits) ==
    IF bits = EMPTY THEN empty
    ELSE from_bits_retain(truncate_loop(F, bits, 1, EMPTY))

(* The conversion without the comparison against the input. *)
from_bits_Unchecked(F, bits) == Some(from_bits_truncate(F, bits))

from_bits(F, bits) ==
    LET truncated == from_bits_truncate(F, bits)
    IN  IF truncated = bits THEN Some(truncated) ELSE None

is_empty(x) == x = EMPTY

is_all(x) == bor(all, x) = x

intersects(x, other) == band(x, other) # EMPTY

(* Containment taken for having a bit in common. *)
contains_Intersecting(x, other) == band(x, other) # EMPTY

contains(x, other) == band(x, other) = other

(* The insertion that overwrites the value. *)
insert_Overwrite(x, other) == from_bits_retain(other)

insert(x, other) == from_bits_retain(bor(x, other))

remove(x, other) == from_bits_retain(band(x, bnot(other)))

toggle(x, other) == from_bits_retain(bxor(x, other))

(* The conditional mutator that inserts whatever the value. *)
set_AlwaysInsert(x, other, value) == insert(x, other)

set(x, other, value) == IF value THEN insert(x, other) ELSE remove(x, other)

intersection(x, other) == from_bits_retain(band(x, other))

union(x, other) == from_bits_retain(bor(x, other))

difference(x, other) == from_bits_retain(band(x, bnot(other)))

(* The union taken for the symmetric difference. *)
symmetric_difference_Inclusive(x, other) == from_bits_retain(bor(x, other))

symmetric_difference(x, other) == from_bits_retain(bxor(x, other))

(* The complement without the truncation. *)
complement_Raw(F, x) == from_bits_retain(bnot(x))

complement(F, x) == from_bits_truncate(F, bnot(x))

----------------------------------------------------------------------------
(* The macro-generated internal type, src/src/internal.rs.                 *)

Internal_empty == EMPTY

Internal_from_bits_retain(bits) == bits

(* The generated tests with a flag kept as soon as any of its bits is set. *)
RECURSIVE Internal_truncate_loop_Intersecting(_, _, _, _)
Internal_truncate_loop_Intersecting(F, bits, i, truncated) ==
    IF i > Len(F) THEN truncated
    ELSE IF band(bits, F[i].bits) # 0
         THEN Internal_truncate_loop_Intersecting(F, bits, i + 1,
                                                  bor(truncated, F[i].bits))
         ELSE Internal_truncate_loop_Intersecting(F, bits, i + 1, truncated)

RECURSIVE Internal_truncate_loop(_, _, _, _)
Internal_truncate_loop(F, bits, i, truncated) ==
    IF i > Len(F) THEN truncated
    ELSE IF band(bits, F[i].bits) = F[i].bits
         THEN Internal_truncate_loop(F, bits, i + 1, bor(truncated, F[i].bits))
         ELSE Internal_truncate_loop(F, bits, i + 1, truncated)

Internal_from_bits_truncate(F, bits) ==
    IF bits = EMPTY THEN bits
    ELSE Internal_truncate_loop(F, bits, 1, EMPTY)

Internal_all(F) == Internal_from_bits_truncate(F, ALL)

Internal_from_bits(F, bits) ==
    LET truncated == Internal_from_bits_truncate(F, bits)
    IN  IF truncated = bits THEN Some(bits) ELSE None

Internal_is_empty(x) == x = Internal_empty

Internal_is_all(F, x) == bor(Internal_all(F), x) = x

Internal_contains(x, other) == band(x, other) = other

Internal_insert(x, other) == bor(x, other)

Internal_remove(x, other) == band(x, bnot(other))

Internal_intersection(x, other) == band(x, other)

Internal_union(x, other) == bor(x, other)

Internal_difference(x, other) == band(x, bnot(other))

Internal_symmetric_difference(x, other) == bxor(x, other)

Internal_complement(F, x) == Internal_from_bits_truncate(F, bnot(x))

----------------------------------------------------------------------------
(* The macro-generated public type, src/src/public.rs: the operators and   *)
(* their assigning forms.  An assigning form is given by the new value of  *)
(* the left operand.                                                       *)

Public_union(x, other) == Internal_union(x, other)

Public_intersection(x, other) == Internal_intersection(x, other)

Public_difference(x, other) == Internal_difference(x, other)

Public_symmetric_difference(x, other) == Internal_symmetric_difference(x, other)

Public_complement(F, x) == Internal_complement(F, x)

Public_bitor(x, other) == Public_union(x, other)

Public_bitor_assign(x, other) == Internal_union(x, other)

Public_bitxor(x, other) == Public_symmetric_difference(x, other)

Public_bitxor_assign(x, other) == Internal_symmetric_difference(x, other)

Public_bitand(x, other) == Public_intersection(x, other)

Public_bitand_assign(x, other) == Internal_intersection(x, other)

Public_sub(x, other) == Public_difference(x, other)

Public_sub_assign(x, other) == Internal_difference(x, other)

Public_not(F, x) == Public_complement(F, x)

----------------------------------------------------------------------------
(* The older macro, src/src/lib.rs.                                        *)

Lib_from_bits_preserve(bits) == bits

Lib_empty == Lib_from_bits_preserve(0)

RECURSIVE Lib_all_fold(_, _)
Lib_all_fold(F, i) ==
    IF i = Len(F) THEN F[i].bits
    ELSE bor(Lib_all_fold(F, i + 1), F[i].bits)

Lib_all(F) ==
    IF Len(F) = 0 THEN Lib_from_bits_preserve(0)
    ELSE Lib_from_bits_preserve(Lib_all_fold(F, 1))

(* The mask test without the negation of all(). *)
Lib_from_bits_NoNegation(F, bits) ==
    IF band(bits, Lib_all(F)) = 0
    THEN Some(Lib_from_bits_preserve(bits))
    ELSE None

Lib_from_bits(F, bits) ==
    IF band(bits, bnot(Lib_all(F))) = 0
    THEN Some(Lib_from_bits_preserve(bits))
    ELSE None

Lib_from_bits_truncate(F, bits) == Lib_from_bits_preserve(band(bits, Lib_all(F)))

Lib_is_all(F, x) == bor(Lib_all(F), x) = x

Lib_intersection(x, other) == Lib_from_bits_preserve(band(x, other))

Lib_union(x, other) == Lib_from_bits_preserve(bor(x, other))

Lib_difference(x, other) == Lib_from_bits_preserve(band(x, bnot(other)))

Lib_symmetric_difference(x, other) == Lib_from_bits_preserve(bxor(x, other))

Lib_complement(F, x) == Lib_from_bits_truncate(F, bnot(x))

Lib_bitor(x, other) == Lib_from_bits_preserve(bor(x, other))

Lib_bitor_assign(x, other) == bor(x, other)

Lib_bitxor(x, other) == Lib_from_bits_preserve(bxor(x, other))

Lib_bitxor_assign(x, other) == bxor(x, other)

Lib_bitand(x, other) == Lib_from_bits_preserve(band(x, other))

Lib_bitand_assign(x, other) == band(x, other)

Lib_sub(x, other) == Lib_from_bits_preserve(band(x, bnot(other)))

Lib_sub_assign(x, other) == band(x, bnot(other))

(* The negation without the mask of all(). *)
Lib_not_Unmasked(F, x) == Lib_from_bits_preserve(bnot(x))

Lib_not(F, x) == Lib_bitand(Lib_from_bits_preserve(bnot(x)), Lib_all(F))

----------------------------------------------------------------------------
(* Iteration, src/src/iter.rs.  next on an iterator gives the iterator     *)
(* after the call and the item returned.                                   *)

IterNames_new(x) ==
    [idx |-> 0, state |-> from_bits_retain(x), source |-> from_bits_retain(x)]

remaining(names) == names.state

(* The iterator with containment tested against the remainder. *)
RECURSIVE IterNames_next_AgainstState(_, _)
IterNames_next_AgainstState(F, names) ==
    IF names.idx >= Len(F) THEN [iter |-> names, item |-> None]
    ELSE IF is_empty(names.state) THEN [iter |-> names, item |-> None]
    ELSE LET flag == F[names.idx + 1]
             stepped == [names EXCEPT !.idx = @ + 1]
         IN  IF contains(names.state, from_bits_retain(flag.bits))
             THEN [iter |-> [stepped EXCEPT
                                !.state = remove(@, from_bits_retain(flag.bits))],
                   item |-> Some(<<flag.name, from_bits_retain(flag.bits)>>)]
             ELSE IterNames_next_AgainstState(F, stepped)

(* The iterator that does not step past the flag it yields. *)
RECURSIVE IterNames_next_NoAdvance(_, _)
IterNames_next_NoAdvance(F, names) ==
    IF names.idx >= Len(F) THEN [iter |-> names, item |-> None]
    ELSE IF is_empty(names.state) THEN [iter |-> names, item |-> None]
    ELSE LET flag == F[names.idx + 1]
         IN  IF contains(names.source, from_bits_retain(flag.bits))
             THEN [iter |-> [names EXCEPT
                                !.state = remove(@, from_bits_retain(flag.bits))],
                   item |-> Some(<<flag.name, from_bits_retain(flag.bits)>>)]
             ELSE IterNames_next_NoAdvance(F, [names EXCEPT !.idx = @ + 1])

RECURSIVE IterNames_next(_, _)
IterNames_next(F, names) ==
    IF names.idx >= Len(F) THEN [iter |-> names, item |-> None]
    ELSE IF is_empty(names.state) THEN [iter |-> names, item |-> None]
    ELSE LET flag == F[names.idx + 1]
             stepped == [names EXCEPT !.idx = @ + 1]
         IN  IF contains(names.source, from_bits_retain(flag.bits))
             THEN [iter |-> [stepped EXCEPT
                                !.state = remove(@, from_bits_retain(flag.bits))],
                   item |-> Some(<<flag.name, from_bits_retain(flag.bits)>>)]
             ELSE IterNames_next(F, stepped)

Iter_new(x) == [inner |-> IterNames_new(x), done |-> FALSE]

(* The iterator without the final item for the remaining bits. *)
Iter_next_NamedOnly(F, it) ==
    LET r == IterNames_next(F, it.inner)
    IN  IF r.item.tag = "Some"
        THEN [iter |-> [it EXCEPT !.inner = r.iter], item |-> Some(r.item.val[2])]
        ELSE [iter |-> [inner |-> r.iter, done |-> TRUE], item |-> None]

(* The iterator that does not remember that it is done. *)
Iter_next_Forgetful(F, it) ==
    LET r == IterNames_next(F, it.inner)
    IN  IF r.item.tag = "Some"
        THEN [iter |-> [it EXCEPT !.inner = r.iter], item |-> Some(r.item.val[2])]
        ELSE [iter |-> [it EXCEPT !.inner = r.iter],
              item |-> IF ~is_empty(remaining(r.iter))
                       THEN Some(from_bits_retain(r.iter.state))
                       ELSE None]

Iter_next(F, it) ==
    LET r == IterNames_next(F, it.inner)
    IN  IF r.item.tag = "Some"
        THEN [iter |-> [it EXCEPT !.inner = r.iter], item |-> Some(r.item.val[2])]
        ELSE IF ~it.done
        THEN [iter |-> [inner |-> r.iter, done |-> TRUE],
              item |-> IF ~is_empty(remaining(r.iter))
                       THEN Some(from_bits_retain(r.iter.state))
                       ELSE None]
        ELSE [iter |-> [it EXCEPT !.inner = r.iter], item |-> None]

(* The iterators the macro generates, src/src/internal.rs.                 *)

Internal_iter_names(x) == [idx |-> 0, source |-> x, state |-> x]

RECURSIVE Internal_IterNames_scan(_, _)
Internal_IterNames_scan(F, names) ==
    IF names.idx >= Len(F) THEN [iter |-> names, item |-> None]
    ELSE LET flag == F[names.idx + 1]
             stepped == [names EXCEPT !.idx = @ + 1]
         IN  IF Internal_contains(names.source, flag.bits)
             THEN [iter |-> [stepped EXCEPT
                                !.state = Internal_remove(@, flag.bits)],
                   item |-> Some(<<flag.name, from_bits_retain(flag.bits)>>)]
             ELSE Internal_IterNames_scan(F, stepped)

(* The iterator that goes on after its remainder is empty. *)
Internal_IterNames_next_NoShortCircuit(F, names) ==
    IF Len(F) = 0
    THEN [iter |-> names, item |-> None]
    ELSE Internal_IterNames_scan(F, names)

Internal_IterNames_next(F, names) ==
    IF Internal_is_empty(names.state) \/ Len(F) = 0
    THEN [iter |-> names, item |-> None]
    ELSE Internal_IterNames_scan(F, names)

Internal_iter(x) == [inner |-> Internal_iter_names(x), done |-> FALSE]

Internal_Iter_next(F, it) ==
    LET r == Internal_IterNames_next(F, it.inner)
    IN  IF r.item.tag = "Some"
        THEN [iter |-> [it EXCEPT !.inner = r.iter], item |-> Some(r.item.val[2])]
        ELSE IF ~it.done
        THEN [iter |-> [inner |-> r.iter, done |-> TRUE],
              item |-> IF r.iter.state # Internal_empty
                       THEN Some(from_bits_retain(r.iter.state))
                       ELSE None]
        ELSE [iter |-> [it EXCEPT !.inner = r.iter], item |-> None]

(* Extend and FromIterator of the public type, src/src/public.rs: every   *)
(* item is inserted.  IntoIterator of a flags value is its iter(), so a   *)
(* flags value is itself a sequence of items: those its iterator yields.   *)
RECURSIVE Public_extend_loop(_, _, _)
Public_extend_loop(x, iterator, i) ==
    IF i > Len(iterator) THEN x
    ELSE Public_extend_loop(Internal_insert(x, iterator[i]), iterator, i + 1)

Public_extend(x, iterator) == Public_extend_loop(x, iterator, 1)

(* The collection that keeps the first item only. *)
Public_from_iter_First(iterator) ==
    IF iterator = << >> THEN Internal_empty ELSE iterator[1]

Public_from_iter(iterator) == Public_extend(Internal_empty, iterator)

RECURSIVE Public_into_iter_from(_, _)
Public_into_iter_from(F, it) ==
    LET r == Internal_Iter_next(F, it)
    IN  IF r.item.tag = "Some"
        THEN << r.item.val >> \o Public_into_iter_from(F, r.iter)
        ELSE << >>

Public_into_iter(F, x) == Public_into_iter_from(F, Internal_iter(x))

----------------------------------------------------------------------------
(* Atomic flags, src/src/atomic.rs.  AtomicBits is the atomic integer of   *)
(* the storage type: each of its operations is one indivisible access to   *)
(* the cell, and gives the cell afterwards and what the operation returns. *)

AtomicBits_fetch_and(cell, val) == [cell |-> band(cell, val), ret |-> Some(cell)]

(* The primitive that stores its operand instead of ORing it in. *)
AtomicBits_fetch_or_Store(cell, val) == [cell |-> val, ret |-> Some(cell)]

AtomicBits_fetch_or(cell, val) == [cell |-> bor(cell, val), ret |-> Some(cell)]

AtomicBits_fetch_xor(cell, val) == [cell |-> bxor(cell, val), ret |-> Some(cell)]

AtomicBits_load(cell) == [cell |-> cell, ret |-> Some(cell)]

AtomicBits_store(cell, val) == [cell |-> val, ret |-> None]

AtomicBits_swap(cell, val) == [cell |-> val, ret |-> Some(cell)]

Atomic_from(value) == value

Atomic_empty == Atomic_from(empty)

Atomic_load(cell) ==
    LET r == AtomicBits_load(cell)
    IN  [cell |-> r.cell, ret |-> Some(from_bits_retain(r.ret.val))]

Atomic_store(cell, value) == AtomicBits_store(cell, value)

Atomic_swap(cell, value) ==
    LET r == AtomicBits_swap(cell, value)
    IN  [cell |-> r.cell, ret |-> Some(from_bits_retain(r.ret.val))]

Atomic_fetch_insert(cell, value) ==
    LET r == AtomicBits_fetch_or(cell, value)
    IN  [cell |-> r.cell, ret |-> Some(from_bits_retain(r.ret.val))]

(* The removal that hands the flags themselves to fetch_and. *)
Atomic_fetch_remove_NoNegation(cell, value) ==
    LET r == AtomicBits_fetch_and(cell, value)
    IN  [cell |-> r.cell, ret |-> Some(from_bits_retain(r.ret.val))]

Atomic_fetch_remove(cell, value) ==
    LET r == AtomicBits_fetch_and(cell, bnot(value))
    IN  [cell |-> r.cell, ret |-> Some(from_bits_retain(r.ret.val))]

Atomic_fetch_toggle(cell, value) ==
    LET r == AtomicBits_fetch_xor(cell, value)
    IN  [cell |-> r.cell, ret |-> Some(from_bits_retain(r.ret.val))]

Atomic_fetch_set(cell, val, set_) ==
    IF set_ THEN Atomic_fetch_insert(cell, val) ELSE Atomic_fetch_remove(cell, val)

----------------------------------------------------------------------------
(* Strings are sequences of characters.                                    *)

Whitespace == {" ", "\t", "\n", "\r"}

RECURSIVE trim_start(_)
trim_start(s) ==
    IF s # << >> /\ Head(s) \in Whitespace THEN trim_start(Tail(s)) ELSE s

RECURSIVE trim_end(_)
trim_end(s) ==
    IF s # << >> /\ s[Len(s)] \in Whitespace
    THEN trim_end(SubSeq(s, 1, Len(s) - 1))
    ELSE s

trim(s) == trim_end(trim_start(s))

RECURSIVE split_from(_, _, _, _)
split_from(s, sep, i, piece) ==
    IF i > Len(s) THEN << piece >>
    ELSE IF s[i] = sep THEN << piece >> \o split_from(s, sep, i + 1, << >>)
    ELSE split_from(s, sep, i + 1, Append(piece, s[i]))

split(s, sep) == split_from(s, sep, 1, << >>)

strip_prefix(s, prefix) ==
    IF Len(s) >= Len(prefix) /\ SubSeq(s, 1, Len(prefix)) = prefix
    THEN Some(SubSeq(s, Len(prefix) + 1, Len(s)))
    ELSE None

----------------------------------------------------------------------------
(* Hex text of the storage type: the LowerHex formatting that to_writer    *)
(* uses and the FromHex parsing of src/src/traits.rs (from_str_radix with  *)
(* radix 16 on the unsigned storage type).                                 *)

LowerDigits ==
    << "0", "1", "2", "3", "4", "5", "6", "7",
       "8", "9", "a", "b", "c", "d", "e", "f" >>

UpperDigits ==
    << "0", "1", "2", "3", "4", "5", "6", "7",
       "8", "9", "A", "B", "C", "D", "E", "F" >>

RECURSIVE lower_hex(_)
lower_hex(n) ==
    IF n < 16 THEN << LowerDigits[n + 1] >>
    ELSE Append(lower_hex(n \div 16), LowerDigits[(n % 16) + 1])

(* The hexadecimal digits without the 0x prefix. *)
write_hex_NoPrefix(n) == lower_hex(n)

write_hex(n) == << "0", "x" >> \o lower_hex(n)

to_digit(c) ==
    IF \E d \in 1..16 : LowerDigits[d] = c
    THEN Some((CHOOSE d \in 1..16 : LowerDigits[d] = c) - 1)
    ELSE IF \E d \in 1..16 : UpperDigits[d] = c
    THEN Some((CHOOSE d \in 1..16 : UpperDigits[d] = c) - 1)
    ELSE None

RECURSIVE radix_loop(_, _, _)
radix_loop(digits, i, result) ==
    IF i > Len(digits) THEN Ok(result)
    ELSE LET d == to_digit(digits[i])
         IN  IF d.tag = "None" THEN Err("InvalidDigit")
             ELSE IF result * 16 + d.val > ALL THEN Err("PosOverflow")
             ELSE radix_loop(digits, i + 1, result * 16 + d.val)

from_str_radix(src) ==
    IF src = << >> THEN Err("Empty")
    ELSE IF Len(src) = 1 /\ src[1] \in {"+", "-"} THEN Err("InvalidDigit")
    ELSE IF src[1] = "+" THEN radix_loop(Tail(src), 1, 0)
    ELSE radix_loop(src, 1, 0)

(* Parse errors, src/src/parser.rs.                                        *)

empty_flag == [kind |-> "EmptyFlag"]

invalid_hex_flag(flag) == [kind |-> "InvalidHexFlag", got |-> flag]

invalid_named_flag(flag) == [kind |-> "InvalidNamedFlag", got |-> flag]

from_hex(input) ==
    LET r == from_str_radix(input)
    IN  IF r.tag = "Ok" THEN Ok(r.val) ELSE Err(invalid_hex_flag(input))

(* FromHex of a signed storage type, src/src/traits.rs: from_str_radix of   *)
(* the signed integer type, which takes an optional sign and accepts the   *)
(* values MIN..MAX of the type.  The result is given as the bit pattern of *)
(* the two's-complement value.                                             *)
RECURSIVE Signed_radix_loop(_, _, _, _)
Signed_radix_loop(digits, i, result, negative) ==
    IF i > Len(digits) THEN Ok(result % (2 ^ Width))
    ELSE LET d == to_digit(digits[i])
         IN  IF d.tag = "None" THEN Err("InvalidDigit")
             ELSE IF negative
             THEN IF result * 16 - d.val < -(2 ^ (Width - 1))
                  THEN Err("NegOverflow")
                  ELSE Signed_radix_loop(digits, i + 1, result * 16 - d.val, negative)
             ELSE IF result * 16 + d.val > 2 ^ (Width - 1) - 1
                  THEN Err("PosOverflow")
                  ELSE Signed_radix_loop(digits, i + 1, result * 16 + d.val, negative)

Signed_from_str_radix(src) ==
    IF src = << >> THEN Err("Empty")
    ELSE IF Len(src) = 1 /\ src[1] \in {"+", "-"} THEN Err("InvalidDigit")
    ELSE IF src[1] = "+" THEN Signed_radix_loop(Tail(src), 1, 0, FALSE)
    ELSE IF src[1] = "-" THEN Signed_radix_loop(Tail(src), 1, 0, TRUE)
    ELSE Signed_radix_loop(src, 1, 0, FALSE)

Signed_from_hex(input) ==
    LET r == Signed_from_str_radix(input)
    IN  IF r.tag = "Ok" THEN Ok(r.val) ELSE Err(invalid_hex_flag(input))

----------------------------------------------------------------------------
(* The text codec: src/src/traits.rs (from_name), src/src/fmt.rs           *)
(* (to_writer) and src/src/parser.rs (from_str).                           *)

RECURSIVE from_name_loop(_, _, _)
from_name_loop(F, name, i) ==
    IF i > Len(F) THEN None
    ELSE IF F[i].name = name THEN Some(from_bits_retain(F[i].bits))
    ELSE from_name_loop(F, name, i + 1)

(* The lookup that takes an unknown name for no flag at all. *)
from_name_IgnoreUnknown(F, name) ==
    LET found == from_name_loop(F, name, 1)
    IN  IF found.tag = "None" THEN Some(empty) ELSE found

from_name(F, name) == from_name_loop(F, name, 1)

Separator == << " ", "|", " " >>

(* The writer that ends with the hex of the whole value. *)
RECURSIVE to_writer_loop_WholeSource(_, _, _, _)
to_writer_loop_WholeSource(F, names, first, writer) ==
    LET r == IterNames_next(F, names)
    IN  IF r.item.tag = "Some"
        THEN to_writer_loop_WholeSource(F, r.iter, FALSE,
                 (IF first THEN writer ELSE writer \o Separator) \o r.item.val[1])
        ELSE LET rest == r.iter.source
             IN  IF remaining(r.iter) # EMPTY
                 THEN (IF first THEN writer ELSE writer \o Separator)
                          \o write_hex(rest)
                 ELSE writer

RECURSIVE to_writer_loop(_, _, _, _)
to_writer_loop(F, names, first, writer) ==
    LET r == IterNames_next(F, names)
    IN  IF r.item.tag = "Some"
        THEN to_writer_loop(F, r.iter, FALSE,
                 (IF first THEN writer ELSE writer \o Separator) \o r.item.val[1])
        ELSE LET rest == remaining(r.iter)
             IN  IF rest # EMPTY
                 THEN (IF first THEN writer ELSE writer \o Separator)
                          \o write_hex(rest)
                 ELSE writer

to_writer(F, x) == to_writer_loop(F, IterNames_new(x), TRUE, << >>)

RECURSIVE from_str_loop(_, _, _, _)
from_str_loop(F, pieces, i, parsed_flags) ==
    IF i > Len(pieces) THEN Ok(parsed_flags)
    ELSE LET flag == trim(pieces[i])
         IN  IF flag = << >> THEN Err(empty_flag)
             ELSE LET hex == strip_prefix(flag, << "0", "x" >>)
                  IN  IF hex.tag = "Some"
                      THEN LET bits == from_hex(hex.val)
                           IN  IF bits.tag = "Err"
                               THEN Err(invalid_hex_flag(hex.val))
                               ELSE from_str_loop(F, pieces, i + 1,
                                        insert(parsed_flags, from_bits_retain(bits.val)))
                      ELSE LET named == from_name(F, flag)
                           IN  IF named.tag = "None"
                               THEN Err(invalid_named_flag(flag))
                               ELSE from_str_loop(F, pieces, i + 1,
                                        insert(parsed_flags, named.val))

(* The parser without the test for an empty input. *)
from_str_NoEmptyInput(F, input) ==
    from_str_loop(F, split(trim(input), "|"), 1, empty)

from_str(F, input) ==
    LET trimmed == trim(input)
    IN  IF trimmed = << >> THEN Ok(empty)
        ELSE from_str_loop(F, split(trimmed, "|"), 1, empty)

(* from_str for a flags type over a signed storage type: the same code     *)
(* with the FromHex of the signed type.                                    *)
RECURSIVE Signed_from_str_loop(_, _, _, _)
Signed_from_str_loop(F, pieces, i, parsed_flags) ==
    IF i > Len(pieces) THEN Ok(parsed_flags)
    ELSE LET flag == trim(pieces[i])
         IN  IF flag = << >> THEN Err(empty_flag)
             ELSE LET hex == strip_prefix(flag, << "0", "x" >>)
                  IN  IF hex.tag = "Some"
                      THEN LET bits == Signed_from_hex(hex.val)
                           IN  IF bits.tag = "Err"
                               THEN Err(invalid_hex_flag(hex.val))
                               ELSE Signed_from_str_loop(F, pieces, i + 1,
                                        insert(parsed_flags,
                                               from_bits_retain(bits.val)))
                      ELSE LET named == from_name(F, flag)
                           IN  IF named.tag = "None"
                               THEN Err(invalid_named_flag(flag))
                               ELSE Signed_from_str_loop(F, pieces, i + 1,
                                        insert(parsed_flags, named.val))

Signed_from_str(F, input) ==
    LET trimmed == trim(input)
    IN  IF trimmed = << >> THEN Ok(empty)
        ELSE Signed_from_str_loop(F, split(trimmed, "|"), 1, empty)

(* FromStr of the generated internal type, src/src/internal.rs: the same   *)
(* steps over from_str_radix of the storage type and the from_name the     *)
(* macro generates (a match on the names of the flags).                    *)
Internal_from_name(F, name) ==
    IF \E i \in 1..Len(F) : F[i].name = name
    THEN Some(Internal_from_bits_retain(
                  F[CHOOSE i \in 1..Len(F) :
                        F[i].name = name /\ \A j \in 1..(i - 1) : F[j].name # name].bits))
    ELSE None

RECURSIVE Internal_from_str_loop(_, _, _, _)
Internal_from_str_loop(F, pieces, i, parsed_flags) ==
    IF i > Len(pieces) THEN Ok(parsed_flags)
    ELSE LET flag == trim(pieces[i])
         IN  IF flag = << >> THEN Err(empty_flag)
             ELSE LET hex == strip_prefix(flag, << "0", "x" >>)
                  IN  IF hex.tag = "Some"
                      THEN LET bits == from_str_radix(hex.val)
                           IN  IF bits.tag = "Err"
                               THEN Err(invalid_hex_flag(hex.val))
                               ELSE Internal_from_str_loop(F, pieces, i + 1,
                                        Internal_insert(parsed_flags,
                                            Internal_from_bits_retain(bits.val)))
                      ELSE LET named == Internal_from_name(F, flag)
                           IN  IF named.tag = "None"
                               THEN Err(invalid_named_flag(flag))
                               ELSE Internal_from_str_loop(F, pieces, i + 1,
                                        Internal_insert(parsed_flags, named.val))

Internal_from_str(F, s) ==
    LET trimmed == trim(s)
    IN  IF trimmed = << >> THEN Ok(Internal_empty)
        ELSE Internal_from_str_loop(F, split(trimmed, "|"), 1, Internal_empty)

(* Display and Debug of the generated internal type, src/src/internal.rs.  *)
RECURSIVE Internal_Display_loop(_, _, _, _)
Internal_Display_loop(F, names, first, f) ==
    LET r == Internal_IterNames_next(F, names)
    IN  IF r.item.tag = "Some"
        THEN Internal_Display_loop(F, r.iter, FALSE,
                 (IF first THEN f ELSE f \o Separator) \o r.item.val[1])
        ELSE LET extra_bits == r.iter.state
             IN  IF extra_bits # EMPTY
                 THEN (IF first THEN f ELSE f \o Separator) \o write_hex(extra_bits)
                 ELSE f

Internal_Display_fmt(F, x) ==
    Internal_Display_loop(F, Internal_iter_names(x), TRUE, << >>)

(* Debug that writes an empty value as Display does. *)
Internal_Debug_fmt_AsDisplay(F, x) == Internal_Display_fmt(F, x)

Internal_Debug_fmt(F, x) ==
    IF Internal_is_empty(x) THEN write_hex(EMPTY) ELSE Internal_Display_fmt(F, x)

(* Debug of the public type, derived on the tuple struct that wraps the   *)
(* internal type: the name of the type and the field in parentheses.      *)
TypeName(F) ==
    CASE F \in {TestFlags, IterNamedFlags} -> << "T", "e", "s", "t", "F", "l", "a", "g", "s" >>
      [] F = TestZero -> << "T", "e", "s", "t", "Z", "e", "r", "o" >>
      [] F = TestEmpty -> << "T", "e", "s", "t", "E", "m", "p", "t", "y" >>
      [] F = TestOverlapping -> << "T", "e", "s", "t", "O", "v", "e", "r", "l", "a", "p", "p", "i", "n", "g" >>
      [] F = ManualFlags -> << "M", "a", "n", "u", "a", "l", "F", "l", "a", "g", "s" >>
      [] F = Test -> << "T", "e", "s", "t" >>
      [] OTHER -> << "F", "l", "a", "g", "s" >>

Public_Debug_fmt(F, x) ==
    TypeName(F) \o << "(" >> \o Internal_Debug_fmt(F, x) \o << ")" >>

(* Debug of the type the older macro generates, src/src/lib.rs: every flag *)
(* that VisitFlags reports, then the bits outside all(), or <empty>.       *)
Lib_VisitFlags(flag, x) ==
    IF flag.bits = 0 /\ x # 0 THEN FALSE
    ELSE band(x, flag.bits) = flag.bits

RECURSIVE Lib_Debug_loop(_, _, _, _, _)
Lib_Debug_loop(F, x, i, first, f) ==
    IF i > Len(F) THEN [first |-> first, f |-> f]
    ELSE IF Lib_VisitFlags(F[i], x)
    THEN Lib_Debug_loop(F, x, i + 1, FALSE,
             (IF first THEN f ELSE f \o Separator) \o F[i].name)
    ELSE Lib_Debug_loop(F, x, i + 1, first, f)

Lib_Debug_fmt(F, x) ==
    LET named == Lib_Debug_loop(F, x, 1, TRUE, << >>)
        extra_bits == band(x, bnot(Lib_all(F)))
        extra == IF extra_bits # 0
                 THEN [first |-> FALSE,
                       f |-> (IF named.first THEN named.f ELSE named.f \o Separator)
                                 \o << "0", "x" >> \o lower_hex(extra_bits)]
                 ELSE named
    IN  IF extra.first THEN extra.f \o << "<", "e", "m", "p", "t", "y", ">" >> ELSE extra.f

----------------------------------------------------------------------------
(* The state machine.  A program holds one value of one flags type (self)  *)
(* and calls the operations on it; call records the call in progress with  *)
(* its operands and what it returned, until the caller drops it.           *)

Idle == [op |-> "idle"]

NoIter == [kind |-> "none"]

NoText == [tag |-> "none"]

(* The threads that share one Atomic<F>.  A thread's call takes effect on  *)
(* the cell in one step (cur holds the call and what it is to return) and  *)
(* returns in a later one (the call moves to done).                        *)
NumThreads == 2

Threads == 1..NumThreads

NoCall == [op |-> "none"]

Init ==
    /\ flags \in FlagSets
    /\ self = empty
    /\ call = Idle
    /\ iter = NoIter
    /\ yielded = << >>
    /\ text = NoText
    /\ parsed = NoText
    /\ atomic = [init |-> empty, bits |-> Atomic_empty]
    /\ threads = [t \in Threads |-> [cur |-> NoCall, done |-> << >>]]

Rest == <<iter, yielded, text, parsed, atomic, threads>>

(* let x = F::from_bits_retain(bits) *)
FromBitsRetain ==
    \E bits \in Bits :
        /\ call = Idle
        /\ self' = from_bits_retain(bits)
        /\ iter' = NoIter
        /\ yielded' = << >>
        /\ text' = NoText
        /\ parsed' = NoText
        /\ UNCHANGED <<flags, call, atomic, threads>>

Drop ==
    /\ call # Idle
    /\ call' = Idle
    /\ UNCHANGED <<flags, self, Rest>>

(* The calls.  A call returns into call: the operation, its operands and  *)
(* what it returned; an assigning operator leaves its result in self.     *)

CallAll ==
    /\ call = Idle
    /\ call' = [op |-> "all", ret |-> all]
    /\ UNCHANGED <<flags, self, Rest>>

CallInternalAll ==
    /\ call = Idle
    /\ call' = [op |-> "Internal_all", ret |-> Internal_all(flags)]
    /\ UNCHANGED <<flags, self, Rest>>

CallLibAll ==
    /\ call = Idle
    /\ call' = [op |-> "Lib_all", ret |-> Lib_all(flags)]
    /\ UNCHANGED <<flags, self, Rest>>

CallFromBitsTruncate ==
    \E bits \in Bits :
        /\ call = Idle
        /\ call' = [op |-> "from_bits_truncate", bits |-> bits, ret |-> from_bits_truncate(flags, bits)]
        /\ UNCHANGED <<flags, self, Rest>>

CallInternalFromBitsTruncate ==
    \E bits \in Bits :
        /\ call = Idle
        /\ call' = [op |-> "Internal_from_bits_truncate", bits |-> bits, ret |-> Internal_from_bits_truncate(flags, bits)]
        /\ UNCHANGED <<flags, self, Rest>>

CallLibFromBitsTruncate ==
    \E bits \in Bits :
        /\ call = Idle
        /\ call' = [op |-> "Lib_from_bits_truncate", bits |-> bits, ret |-> Lib_from_bits_truncate(flags, bits)]
        /\ UNCHANGED <<flags, self, Rest>>

CallFromBits ==
    \E bits \in Bits :
        /\ call = Idle
        /\ call' = [op |-> "from_bits", bits |-> bits, ret |-> from_bits(flags, bits)]
        /\ UNCHANGED <<flags, self, Rest>>

CallInternalFromBits ==
    \E bits \in Bits :
        /\ call = Idle
        /\ call' = [op |-> "Internal_from_bits", bits |-> bits, ret |-> Internal_from_bits(flags, bits)]
        /\ UNCHANGED <<flags, self, Rest>>

CallLibFromBits ==
    \E bits \in Bits :
        /\ call = Idle
        /\ call' = [op |-> "Lib_from_bits", bits |-> bits, ret |-> Lib_from_bits(flags, bits)]
        /\ UNCHANGED <<flags, self, Rest>>

CallIsAll ==
    /\ call = Idle
    /\ call' = [op |-> "is_all", a |-> self, ret |-> is_all(self)]
    /\ UNCHANGED <<flags, self, Rest>>

CallInternalIsAll ==
    /\ call = Idle
    /\ call' = [op |-> "Internal_is_all", a |-> self, ret |-> Internal_is_all(flags, self)]
    /\ UNCHANGED <<flags, self, Rest>>

CallLibIsAll ==
    /\ call = Idle
    /\ call' = [op |-> "Lib_is_all", a |-> self, ret |-> Lib_is_all(flags, self)]
    /\ UNCHANGED <<flags, self, Rest>>

CallComplement ==
    /\ call = Idle
    /\ call' = [op |-> "complement", a |-> self, ret |-> complement(flags, self)]
    /\ UNCHANGED <<flags, self, Rest>>

CallInternalComplement ==
    /\ call = Idle
    /\ call' = [op |-> "Internal_complement", a |-> self, ret |-> Internal_complement(flags, self)]
    /\ UNCHANGED <<flags, self, Rest>>

CallLibComplement ==
    /\ call = Idle
    /\ call' = [op |-> "Lib_complement", a |-> self, ret |-> Lib_complement(flags, self)]
    /\ UNCHANGED <<flags, self, Rest>>

CallUnion ==
    \E other \in Bits :
        /\ call = Idle
        /\ call' = [op |-> "union", a |-> self, b |-> other,
                    ret |-> union(self, other)]
        /\ UNCHANGED <<flags, self, Rest>>

CallIntersection ==
    \E other \in Bits :
        /\ call = Idle
        /\ call' = [op |-> "intersection", a |-> self, b |-> other,
                    ret |-> intersection(self, other)]
        /\ UNCHANGED <<flags, self, Rest>>

CallDifference ==
    \E other \in Bits :
        /\ call = Idle
        /\ call' = [op |-> "difference", a |-> self, b |-> other,
                    ret |-> difference(self, other)]
        /\ UNCHANGED <<flags, self, Rest>>

CallSymmetricDifference ==
    \E other \in Bits :
        /\ call = Idle
        /\ call' = [op |-> "symmetric_difference", a |-> self, b |-> other,
                    ret |-> symmetric_difference(self, other)]
        /\ UNCHANGED <<flags, self, Rest>>

CallPublicBitor ==
    \E other \in Bits :
        /\ call = Idle
        /\ call' = [op |-> "Public_bitor", a |-> self, b |-> other,
                    ret |-> Public_bitor(self, other)]
        /\ UNCHANGED <<flags, self, Rest>>

CallPublicBitxor ==
    \E other \in Bits :
        /\ call = Idle
        /\ call' = [op |-> "Public_bitxor", a |-> self, b |-> other,
                    ret |-> Public_bitxor(self, other)]
        /\ UNCHANGED <<flags, self, Rest>>

CallPublicBitand ==
    \E other \in Bits :
        /\ call = Idle
        /\ call' = [op |-> "Public_bitand", a |-> self, b |-> other,
                    ret |-> Public_bitand(self, other)]
        /\ UNCHANGED <<flags, self, Rest>>

CallPublicSub ==
    \E other \in Bits :
        /\ call = Idle
        /\ call' = [op |-> "Public_sub", a |-> self, b |-> other,
                    ret |-> Public_sub(self, other)]
        /\ UNCHANGED <<flags, self, Rest>>

CallPublicNot ==
    /\ call = Idle
    /\ call' = [op |-> "Public_not", a |-> self, ret |-> Public_not(flags, self)]
    /\ UNCHANGED <<flags, self, Rest>>

CallPublicBitorAssign ==
    \E other \in Bits :
        /\ call = Idle
        /\ call' = [op |-> "Public_bitor_assign", a |-> self, b |-> other]
        /\ self' = Public_bitor_assign(self, other)
        /\ UNCHANGED <<flags, Rest>>

CallPublicBitxorAssign ==
    \E other \in Bits :
        /\ call = Idle
        /\ call' = [op |-> "Public_bitxor_assign", a |-> self, b |-> other]
        /\ self' = Public_bitxor_assign(self, other)
        /\ UNCHANGED <<flags, Rest>>

CallPublicBitandAssign ==
    \E other \in Bits :
        /\ call = Idle
        /\ call' = [op |-> "Public_bitand_assign", a |-> self, b |-> other]
        /\ self' = Public_bitand_assign(self, other)
        /\ UNCHANGED <<flags, Rest>>

CallPublicSubAssign ==
    \E other \in Bits :
        /\ call = Idle
        /\ call' = [op |-> "Public_sub_assign", a |-> self, b |-> other]
        /\ self' = Public_sub_assign(self, other)
        /\ UNCHANGED <<flags, Rest>>

CallLibBitor ==
    \E other \in Bits :
        /\ call = Idle
        /\ call' = [op |-> "Lib_bitor", a |-> self, b |-> other,
                    ret |-> Lib_bitor(self, other)]
        /\ UNCHANGED <<flags, self, Rest>>

CallLibBitxor ==
    \E other \in Bits :
        /\ call = Idle
        /\ call' = [op |-> "Lib_bitxor", a |-> self, b |-> other,
                    ret |-> Lib_bitxor(self, other)]
        /\ UNCHANGED <<flags, self, Rest>>

CallLibBitand ==
    \E other \in Bits :
        /\ call = Idle
        /\ call' = [op |-> "Lib_bitand", a |-> self, b |-> other,
                    ret |-> Lib_bitand(self, other)]
        /\ UNCHANGED <<flags, self, Rest>>

CallLibSub ==
    \E other \in Bits :
        /\ call = Idle
        /\ call' = [op |-> "Lib_sub", a |-> self, b |-> other,
                    ret |-> Lib_sub(self, other)]
        /\ UNCHANGED <<flags, self, Rest>>

CallLibNot ==
    /\ call = Idle
    /\ call' = [op |-> "Lib_not", a |-> self, ret |-> Lib_not(flags, self)]
    /\ UNCHANGED <<flags, self, Rest>>

CallLibBitorAssign ==
    \E other \in Bits :
        /\ call = Idle
        /\ call' = [op |-> "Lib_bitor_assign", a |-> self, b |-> other]
        /\ self' = Lib_bitor_assign(self, other)
        /\ UNCHANGED <<flags, Rest>>

CallLibBitxorAssign ==
    \E other \in Bits :
        /\ call = Idle
        /\ call' = [op |-> "Lib_bitxor_assign", a |-> self, b |-> other]
        /\ self' = Lib_bitxor_assign(self, other)
        /\ UNCHANGED <<flags, Rest>>

CallLibBitandAssign ==
    \E other \in Bits :
        /\ call = Idle
        /\ call' = [op |-> "Lib_bitand_assign", a |-> self, b |-> other]
        /\ self' = Lib_bitand_assign(self, other)
        /\ UNCHANGED <<flags, Rest>>

CallLibSubAssign ==
    \E other \in Bits :
        /\ call = Idle
        /\ call' = [op |-> "Lib_sub_assign", a |-> self, b |-> other]
        /\ self' = Lib_sub_assign(self, other)
        /\ UNCHANGED <<flags, Rest>>

CallIsEmpty ==
    /\ call = Idle
    /\ call' = [op |-> "is_empty", a |-> self, ret |-> is_empty(self)]
    /\ UNCHANGED <<flags, self, Rest>>

CallContains ==
    \E other \in Bits :
        /\ call = Idle
        /\ call' = [op |-> "contains", a |-> self, b |-> other,
                    ret |-> contains(self, other)]
        /\ UNCHANGED <<flags, self, Rest>>

CallInsert ==
    \E other \in Bits :
        /\ call = Idle
        /\ call' = [op |-> "insert", a |-> self, b |-> other]
        /\ self' = insert(self, other)
        /\ UNCHANGED <<flags, Rest>>

CallRemove ==
    \E other \in Bits :
        /\ call = Idle
        /\ call' = [op |-> "remove", a |-> self, b |-> other]
        /\ self' = remove(self, other)
        /\ UNCHANGED <<flags, Rest>>

CallToggle ==
    \E other \in Bits :
        /\ call = Idle
        /\ call' = [op |-> "toggle", a |-> self, b |-> other]
        /\ self' = toggle(self, other)
        /\ UNCHANGED <<flags, Rest>>

CallSet ==
    \E other \in Bits, value \in BOOLEAN :
        /\ call = Idle
        /\ call' = [op |-> "set", a |-> self, b |-> other, value |-> value]
        /\ self' = set(self, other, value)
        /\ UNCHANGED <<flags, Rest>>

Next ==
    \/ FromBitsRetain
    \/ Drop
    \/ CallAll
    \/ CallInternalAll
    \/ CallLibAll
    \/ CallFromBitsTruncate
    \/ CallInternalFromBitsTruncate
    \/ CallLibFromBitsTruncate
    \/ CallFromBits
    \/ CallInternalFromBits
    \/ CallLibFromBits
    \/ CallIsAll
    \/ CallInternalIsAll
    \/ CallLibIsAll
    \/ CallComplement
    \/ CallInternalComplement
    \/ CallLibComplement
    \/ CallUnion
    \/ CallIntersection
    \/ CallDifference
    \/ CallSymmetricDifference
    \/ CallPublicBitor
    \/ CallPublicBitxor
    \/ CallPublicBitand
    \/ CallPublicSub
    \/ CallPublicNot
    \/ CallPublicBitorAssign
    \/ CallPublicBitxorAssign
    \/ CallPublicBitandAssign
    \/ CallPublicSubAssign
    \/ CallLibBitor
    \/ CallLibBitxor
    \/ CallLibBitand
    \/ CallLibSub
    \/ CallLibNot
    \/ CallLibBitorAssign
    \/ CallLibBitxorAssign
    \/ CallLibBitandAssign
    \/ CallLibSubAssign
    \/ CallIsEmpty
    \/ CallContains
    \/ CallInsert
    \/ CallRemove
    \/ CallToggle
    \/ CallSet

Spec == Init /\ [][Next]_vars

----------------------------------------------------------------------------
(* Iterating over self: x.iter() and the calls of next() on the iterator.  *)
(* iter holds the live iterator and what its last next() returned; yielded *)
(* collects the items returned so far.                                     *)

Started == [tag |-> "started"]

CallIter ==
    /\ iter' = [kind |-> "Iter", st |-> Iter_new(self), last |-> Started]
    /\ yielded' = << >>
    /\ UNCHANGED <<flags, self, call, atomic, threads, text, parsed>>

CallIterNext ==
    /\ iter.kind = "Iter"
    /\ LET r == Iter_next(flags, iter.st)
       IN  /\ iter' = [iter EXCEPT !.st = r.iter, !.last = r.item]
           /\ yielded' = IF r.item.tag = "Some"
                         THEN Append(yielded, r.item.val)
                         ELSE yielded
    /\ UNCHANGED <<flags, self, call, atomic, threads, text, parsed>>

CallInternalIter ==
    /\ iter' = [kind |-> "Internal_Iter", st |-> Internal_iter(self), last |-> Started]
    /\ yielded' = << >>
    /\ UNCHANGED <<flags, self, call, atomic, threads, text, parsed>>

CallInternalIterNext ==
    /\ iter.kind = "Internal_Iter"
    /\ LET r == Internal_Iter_next(flags, iter.st)
       IN  /\ iter' = [iter EXCEPT !.st = r.iter, !.last = r.item]
           /\ yielded' = IF r.item.tag = "Some"
                         THEN Append(yielded, r.item.val)
                         ELSE yielded
    /\ UNCHANGED <<flags, self, call, atomic, threads, text, parsed>>

NextIter ==
    \/ FromBitsRetain
    \/ CallIter
    \/ CallIterNext
    \/ CallInternalIter
    \/ CallInternalIterNext

SpecIter == Init /\ [][NextIter]_vars

(* Iterating over the named flags of self: x.iter_names() and the calls of *)
(* next() on it; yielded collects the (name, value) pairs returned.        *)
CallIterNames ==
    /\ iter' = [kind |-> "IterNames", st |-> IterNames_new(self), last |-> Started]
    /\ yielded' = << >>
    /\ UNCHANGED <<flags, self, call, atomic, threads, text, parsed>>

CallIterNamesNext ==
    /\ iter.kind = "IterNames"
    /\ LET r == IterNames_next(flags, iter.st)
       IN  /\ iter' = [iter EXCEPT !.st = r.iter, !.last = r.item]
           /\ yielded' = IF r.item.tag = "Some"
                         THEN Append(yielded, r.item.val)
                         ELSE yielded
    /\ UNCHANGED <<flags, self, call, atomic, threads, text, parsed>>

CallInternalIterNames ==
    /\ iter' = [kind |-> "Internal_IterNames", st |-> Internal_iter_names(self),
                last |-> Started]
    /\ yielded' = << >>
    /\ UNCHANGED <<flags, self, call, atomic, threads, text, parsed>>

CallInternalIterNamesNext ==
    /\ iter.kind = "Internal_IterNames"
    /\ LET r == Internal_IterNames_next(flags, iter.st)
       IN  /\ iter' = [iter EXCEPT !.st = r.iter, !.last = r.item]
           /\ yielded' = IF r.item.tag = "Some"
                         THEN Append(yielded, r.item.val)
                         ELSE yielded
    /\ UNCHANGED <<flags, self, call, atomic, threads, text, parsed>>

NextIterNames ==
    \/ FromBitsRetain
    \/ CallIterNames
    \/ CallIterNamesNext

SpecIterNames == Init /\ [][NextIterNames]_vars

(* Both iterators of both generations over self. *)
----------------------------------------------------------------------------
(* Building a value from items: x.extend(items), items.collect() and       *)
(* x.iter().collect().  The items are up to MaxItems flags values, among   *)
(* them the empty one, overlapping ones and one with an undeclared bit.    *)

MaxItems == 3

ItemValues == {EMPTY, 1, 6, 2^(Width - 1)}

Items == UNION {[1..n -> ItemValues] : n \in 0..MaxItems}

CallExtend ==
    \E iterator \in Items :
        /\ call = Idle
        /\ call' = [op |-> "extend", a |-> self, items |-> iterator]
        /\ self' = Public_extend(self, iterator)
        /\ UNCHANGED <<flags, Rest>>

CallFromIter ==
    \E iterator \in Items :
        /\ call = Idle
        /\ call' = [op |-> "from_iter", items |-> iterator,
                    ret |-> Public_from_iter(iterator)]
        /\ UNCHANGED <<flags, self, Rest>>

CallCollectIter ==
    /\ call = Idle
    /\ call' = [op |-> "collect", a |-> self,
                items |-> Public_into_iter(flags, self),
                ret |-> Public_from_iter(Public_into_iter(flags, self))]
    /\ UNCHANGED <<flags, self, Rest>>

NextBulk ==
    \/ FromBitsRetain
    \/ Drop
    \/ CallExtend
    \/ CallFromIter
    \/ CallCollectIter

SpecBulk == Init /\ [][NextBulk]_vars

----------------------------------------------------------------------------
(* Threads calling the methods of one Atomic<F>.  atomic holds the value   *)
(* the Atomic was made from and the bits now in its cell.  At most         *)
(* MaxCalls calls are made on one Atomic.                                  *)

MaxCalls == 2

AtomicValues == {1, 2}

AtomicInits == {EMPTY, 2^(Width - 1) + 1}

RECURSIVE CallsUpTo(_)
CallsUpTo(t) ==
    IF t = 0 THEN 0
    ELSE CallsUpTo(t - 1) + Len(threads[t].done)
             + (IF threads[t].cur = NoCall THEN 0 ELSE 1)

NumCalls == CallsUpTo(NumThreads)

CanCall(t) == threads[t].cur = NoCall /\ NumCalls < MaxCalls

Called(t, op, val, set_, r) ==
    /\ atomic' = [atomic EXCEPT !.bits = r.cell]
    /\ threads' = [threads EXCEPT ![t].cur =
                       [op |-> op, val |-> val, set |-> set_, ret |-> r.ret]]
    /\ UNCHANGED <<flags, self, call, iter, yielded, text, parsed>>

(* let atomic = Atomic::from(value) *)
AtomicFrom ==
    \E value \in AtomicInits :
        /\ \A t \in Threads : threads[t].cur = NoCall
        /\ atomic' = [init |-> value, bits |-> Atomic_from(value)]
        /\ threads' = [t \in Threads |-> [cur |-> NoCall, done |-> << >>]]
        /\ UNCHANGED <<flags, self, call, iter, yielded, text, parsed>>

CallAtomicLoad ==
    \E t \in Threads :
        /\ CanCall(t)
        /\ Called(t, "load", EMPTY, FALSE, Atomic_load(atomic.bits))

CallAtomicStore ==
    \E t \in Threads, value \in AtomicValues :
        /\ CanCall(t)
        /\ Called(t, "store", value, FALSE, Atomic_store(atomic.bits, value))

CallAtomicSwap ==
    \E t \in Threads, value \in AtomicValues :
        /\ CanCall(t)
        /\ Called(t, "swap", value, FALSE, Atomic_swap(atomic.bits, value))

CallAtomicFetchInsert ==
    \E t \in Threads, value \in AtomicValues :
        /\ CanCall(t)
        /\ Called(t, "fetch_insert", value, FALSE,
                  Atomic_fetch_insert(atomic.bits, value))

CallAtomicFetchRemove ==
    \E t \in Threads, value \in AtomicValues :
        /\ CanCall(t)
        /\ Called(t, "fetch_remove", value, FALSE,
                  Atomic_fetch_remove(atomic.bits, value))

CallAtomicFetchToggle ==
    \E t \in Threads, value \in AtomicValues :
        /\ CanCall(t)
        /\ Called(t, "fetch_toggle", value, FALSE,
                  Atomic_fetch_toggle(atomic.bits, value))

CallAtomicFetchSet ==
    \E t \in Threads, val \in AtomicValues, set_ \in BOOLEAN :
        /\ CanCall(t)
        /\ Called(t, "fetch_set", val, set_,
                  Atomic_fetch_set(atomic.bits, val, set_))

AtomicReturn ==
    \E t \in Threads :
        /\ threads[t].cur # NoCall
        /\ threads' = [threads EXCEPT ![t].cur = NoCall,
                                      ![t].done = Append(@, threads[t].cur)]
        /\ UNCHANGED <<flags, self, call, iter, yielded, text, parsed, atomic>>

InitAtomic == Init /\ flags = TestFlags

NextAtomic ==
    \/ AtomicFrom
    \/ CallAtomicLoad
    \/ CallAtomicStore
    \/ CallAtomicSwap
    \/ CallAtomicFetchInsert
    \/ CallAtomicFetchRemove
    \/ CallAtomicFetchToggle
    \/ CallAtomicFetchSet
    \/ AtomicReturn

SpecAtomic == InitAtomic /\ [][NextAtomic]_vars

----------------------------------------------------------------------------
(* Writing self as text and parsing the text back.                         *)

CallToWriter ==
    /\ text' = [tag |-> "written", src |-> self, out |-> to_writer(flags, self)]
    /\ parsed' = NoText
    /\ UNCHANGED <<flags, self, call, atomic, threads, iter, yielded>>

CallFromStr ==
    /\ text.tag \in {"written", "Display", "Debug"}
    /\ parsed' = from_str(flags, text.out)
    /\ UNCHANGED <<flags, self, call, atomic, threads, iter, yielded, text>>

NextText ==
    \/ FromBitsRetain
    \/ CallToWriter
    \/ CallFromStr

SpecText == Init /\ [][NextText]_vars

NextIterators ==
    \/ FromBitsRetain
    \/ CallIter
    \/ CallIterNext
    \/ CallInternalIter
    \/ CallInternalIterNext
    \/ CallIterNames
    \/ CallIterNamesNext
    \/ CallInternalIterNames
    \/ CallInternalIterNamesNext

SpecIterators == Init /\ [][NextIterators]_vars

(* The iterators beside the formatter, which runs the same iterator. *)
NextRemaining ==
    \/ FromBitsRetain
    \/ CallIter
    \/ CallIterNext
    \/ CallInternalIter
    \/ CallInternalIterNext
    \/ CallIterNames
    \/ CallIterNamesNext
    \/ CallInternalIterNames
    \/ CallInternalIterNamesNext
    \/ CallToWriter

SpecRemaining == Init /\ [][NextRemaining]_vars

(* The same round trip for a flags type over a signed storage type: the    *)
(* bits written are those of the two's-complement value.                   *)
CallSignedFromStr ==
    /\ text.tag = "written"
    /\ parsed' = Signed_from_str(flags, text.out)
    /\ UNCHANGED <<flags, self, call, atomic, threads, iter, yielded, text>>

NextSignedText ==
    \/ FromBitsRetain
    \/ CallToWriter
    \/ CallSignedFromStr

SpecSignedText == Init /\ [][NextSignedText]_vars

(* Formatting self with the Display and Debug of the generated type, and   *)
(* parsing what was written.                                               *)
CallInternalDisplay ==
    /\ text' = [tag |-> "Display", src |-> self,
                out |-> Internal_Display_fmt(flags, self)]
    /\ parsed' = NoText
    /\ UNCHANGED <<flags, self, call, atomic, threads, iter, yielded>>

CallInternalDebug ==
    /\ text' = [tag |-> "Debug", src |-> self,
                out |-> Internal_Debug_fmt(flags, self)]
    /\ parsed' = NoText
    /\ UNCHANGED <<flags, self, call, atomic, threads, iter, yielded>>

CallPublicDebug ==
    /\ text' = [tag |-> "PublicDebug", src |-> self,
                out |-> Public_Debug_fmt(flags, self)]
    /\ parsed' = NoText
    /\ UNCHANGED <<flags, self, call, atomic, threads, iter, yielded>>

(* The derived Debug of a type of the older macro, over its bit field. *)
CallLibDebug ==
    /\ text' = [tag |-> "LibDebug", src |-> self,
                out |-> TypeName(flags) \o << "(" >>
                            \o Lib_Debug_fmt(flags, self) \o << ")" >>]
    /\ parsed' = NoText
    /\ UNCHANGED <<flags, self, call, atomic, threads, iter, yielded>>

NextFmt ==
    \/ FromBitsRetain
    \/ CallToWriter
    \/ CallInternalDisplay
    \/ CallInternalDebug
    \/ CallPublicDebug
    \/ CallLibDebug
    \/ CallFromStr

SpecFmt == Init /\ [][NextFmt]_vars

----------------------------------------------------------------------------
(* Parsing text that a caller supplies.  The text is made of up to         *)
(* MaxPieces tokens joined with "|"; a token is kept with what it is: its  *)
(* characters s, its kind, its text without the surrounding whitespace     *)
(* and the 0x prefix (core), and for a hex token the number it denotes     *)
(* (val, -1 when it denotes none).                                         *)

MaxPieces == 2

Tok(s, kind, core, val) == [s |-> s, kind |-> kind, core |-> core, val |-> val]

Tokens ==
    { Tok(<< >>, "blank", << >>, -1),
      Tok(<< " " >>, "blank", << >>, -1),
      Tok(<< "A" >>, "name", << "A" >>, -1),
      Tok(<< "A", " " >>, "name", << "A" >>, -1),
      Tok(<< " ", "B" >>, "name", << "B" >>, -1),
      Tok(<< "a" >>, "name", << "a" >>, -1),
      Tok(<< "A", " ", "&", " ", "B" >>, "name", << "A", " ", "&", " ", "B" >>, -1),
      Tok(<< "0", "x", "8" >>, "hex", << "8" >>, 8),
      Tok(<< " ", "0", "x", "8" >>, "hex", << "8" >>, 8),
      Tok(<< "0", "x" >>, "hex", << >>, -1),
      Tok(<< "0", "x", "g" >>, "hex", << "g" >>, -1),
      Tok(<< "0", "x", "f", "f" >>, "hex", << "f", "f" >>, 255),
      Tok(<< "0", "x", "+", "8" >>, "hex", << "+", "8" >>, 8) }

Inputs == UNION {[1..n -> Tokens] : n \in 1..MaxPieces}

RECURSIVE Join(_)
Join(pieces) ==
    IF Len(pieces) = 1 THEN pieces[1].s
    ELSE pieces[1].s \o << "|" >> \o Join(Tail(pieces))

CallFromStrInput ==
    \E pieces \in Inputs :
        /\ text = NoText
        /\ text' = [tag |-> "input", pieces |-> pieces, out |-> Join(pieces)]
        /\ parsed' = from_str(flags, Join(pieces))
        /\ UNCHANGED <<flags, self, call, atomic, threads, iter, yielded>>

CallInternalFromStrInput ==
    \E pieces \in Inputs :
        /\ text = NoText
        /\ text' = [tag |-> "internal_input", pieces |-> pieces, out |-> Join(pieces)]
        /\ parsed' = Internal_from_str(flags, Join(pieces))
        /\ UNCHANGED <<flags, self, call, atomic, threads, iter, yielded>>

DropText ==
    /\ text # NoText
    /\ text' = NoText
    /\ parsed' = NoText
    /\ UNCHANGED <<flags, self, call, atomic, threads, iter, yielded>>

NextParse ==
    \/ CallFromStrInput
    \/ CallInternalFromStrInput
    \/ DropText

SpecParse == Init /\ [][NextParse]_vars

----------------------------------------------------------------------------
(* Bit patterns as sets of bit positions, for stating the properties.      *)

Has(n, i) == (n \div 2^i) % 2 = 1

BitSet(n) == {i \in 0..(Width - 1) : Has(n, i)}

(* The bits of the entries of table F that satisfy Keep. *)
EntryBits(F, Keep(_)) ==
    UNION {BitSet(F[i].bits) : i \in {j \in 1..Len(F) : Keep(F[j].bits)}}

(* Every bit some entry of F declares. *)
Known(F) == EntryBits(F, LAMBDA e : TRUE)

(* The bits of the entries of F all of whose bits are set in b. *)
Covered(F, b) == EntryBits(F, LAMBDA e : BitSet(e) \subseteq BitSet(b))

----------------------------------------------------------------------------
(* C1: text round trip.  Whatever value was written with to_writer, parsing *)
(* the written text with from_str returns Ok of a value with the same bits, *)
(* also for values with unknown bits or with part of a multi-bit flag.      *)
C1_TextRoundTrip ==
    parsed.tag # "none" => parsed.tag = "Ok" /\ parsed.val = text.src

(* TestOverlapping at 0b1011: BC is not set, AB is, bit 3 is unknown. *)
C1_Witness ==
    /\ flags = TestOverlapping
    /\ text.tag = "written"
    /\ text.src = 11
    /\ text.out = << "A", "B", " ", "|", " ", "0", "x", "8" >>
    /\ parsed = Ok(11)

(* C2: union reconstruction.  Once x.iter() is exhausted, the union of the *)
(* bits of the items it yielded is exactly the bits of x, for both          *)
(* iterator implementations.                                                *)
C2_UnionReconstruction ==
    (iter.kind # "none" /\ iter.last = None) =>
        UNION {BitSet(yielded[i]) : i \in 1..Len(yielded)} = BitSet(self)

(* OverlapFlags at 0b1101 yields A, B and the unknown bit 3. *)
C2_Witness ==
    /\ flags = OverlapFlags
    /\ self = 13
    /\ iter.kind = "Iter"
    /\ iter.last = None
    /\ yielded = << 1, 5, 8 >>

----------------------------------------------------------------------------
TruncateOps == {"from_bits_truncate", "Internal_from_bits_truncate"}

(* C3 as stated: whichever from_bits_truncate is called, the result is the *)
(* union of exactly the entries whose bits are all present in the input.   *)
C3_Original ==
    call.op \in TruncateOps \cup {"Lib_from_bits_truncate"} =>
        BitSet(call.ret) = Covered(flags, call.bits)

(* C3 amended: the trait's and the generated internal from_bits_truncate   *)
(* return the union of exactly the entries whose bits are all present in   *)
(* the input; the older macro's from_bits_truncate masks the input with    *)
(* all(), so there a partly set multi-bit flag keeps the bits it has.      *)
C3_TruncateAtomic ==
    /\ call.op \in TruncateOps =>
           BitSet(call.ret) = Covered(flags, call.bits)
    /\ call.op = "Lib_from_bits_truncate" =>
           BitSet(call.ret) = BitSet(call.bits) \cap Known(flags)

(* TestOverlapping at 0b0101: a part of AB and a part of BC, nothing kept. *)
C3_Witness ==
    /\ flags = TestOverlapping
    /\ call.op = "from_bits_truncate"
    /\ call.bits = 5
    /\ call.ret = 0

FromBitsOps == {"from_bits", "Internal_from_bits"}

(* C4 as stated: from_bits(b) is Some(b) exactly when b has no bit outside *)
(* the union of all entries, and None otherwise.                           *)
C4_Original ==
    call.op \in FromBitsOps \cup {"Lib_from_bits"} =>
        call.ret = IF BitSet(call.bits) \subseteq Known(flags)
                   THEN Some(call.bits) ELSE None

(* C4 amended: the trait's and the generated internal from_bits return     *)
(* Some(b) exactly when every set bit of b lies in an entry whose bits are *)
(* all set in b (a multi-bit flag counts as a unit), and None otherwise;   *)
(* having no bit outside the union of all entries is necessary for Some    *)
(* and, for the older macro's from_bits only, also sufficient.             *)
C4_FromBitsUnits ==
    /\ call.op \in FromBitsOps =>
           call.ret = IF BitSet(call.bits) \subseteq Covered(flags, call.bits)
                      THEN Some(call.bits) ELSE None
    /\ call.op = "Lib_from_bits" =>
           call.ret = IF BitSet(call.bits) \subseteq Known(flags)
                      THEN Some(call.bits) ELSE None
    /\ (call.op \in FromBitsOps /\ call.ret.tag = "Some") =>
           BitSet(call.bits) \subseteq Known(flags)

(* TestOverlapping at 0b001: inside all() = 0b111, yet only a part of AB. *)
C4_Witness ==
    /\ flags = TestOverlapping
    /\ call.op = "from_bits"
    /\ call.bits = 1
    /\ call.ret = None

(* C5: checked-conversion agreement.  from_bits(b) is Some exactly when    *)
(* from_bits_truncate(b) has the bits b, and then the value returned has   *)
(* the bits b; in each of the three implementations.                       *)
C5_CheckedAgreement ==
    /\ call.op = "from_bits" =>
           /\ (call.ret.tag = "Some") = (from_bits_truncate(flags, call.bits) = call.bits)
           /\ call.ret.tag = "Some" => call.ret.val = call.bits
    /\ call.op = "Internal_from_bits" =>
           /\ (call.ret.tag = "Some")
                  = (Internal_from_bits_truncate(flags, call.bits) = call.bits)
           /\ call.ret.tag = "Some" => call.ret.val = call.bits
    /\ call.op = "Lib_from_bits" =>
           /\ (call.ret.tag = "Some")
                  = (Lib_from_bits_truncate(flags, call.bits) = call.bits)
           /\ call.ret.tag = "Some" => call.ret.val = call.bits

(* TestFlags: from_bits(0b1000) is None and from_bits_truncate drops bit 3. *)
C5_Witness ==
    /\ flags = TestFlags
    /\ call.op = "Lib_from_bits"
    /\ call.bits = 8
    /\ call.ret = None

(* C6: all() has exactly the bits of the table's entries, for the trait's  *)
(* all() as for the generated ones.                                        *)
C6_AllIsUnionOfEntries ==
    call.op \in {"all", "Internal_all", "Lib_all"} =>
        BitSet(call.ret) = Known(flags)

ComplementOps == {"complement", "Internal_complement"}

(* C7: complement() is from_bits_truncate of the inverted bits.  The bits  *)
(* of the result are those of the entries that share no bit with the       *)
(* operand (for the older macro: the declared bits the operand lacks), so  *)
(* the result has no bit outside all() and no unknown bit of the operand   *)
(* is inverted into the result; with the table {A = 1},                    *)
(* from_bits_retain(0b10).complement() is A.                               *)
C7_ComplementTruncates ==
    /\ call.op = "complement" =>
           call.ret = from_bits_truncate(flags, ALL - call.a)
    /\ call.op = "Internal_complement" =>
           call.ret = Internal_from_bits_truncate(flags, ALL - call.a)
    /\ call.op = "Lib_complement" =>
           /\ call.ret = Lib_from_bits_truncate(flags, ALL - call.a)
           /\ BitSet(call.ret) = Known(flags) \ BitSet(call.a)
    /\ call.op \in ComplementOps =>
           /\ BitSet(call.ret)
                  = EntryBits(flags, LAMBDA e : BitSet(e) \cap BitSet(call.a) = {})
           /\ BitSet(call.ret) \subseteq Known(flags) \ BitSet(call.a)
    /\ (call.op \in ComplementOps /\ flags = Test /\ call.a = 2) => call.ret = 1

C7_Witness ==
    /\ flags = Test
    /\ call.op = "complement"
    /\ call.a = 2
    /\ call.ret = 1

(* C8: union, intersection, difference and symmetric_difference return     *)
(* exactly a|b, a&b, a&~b and a^b of the operands' raw bits, unknown bits  *)
(* included.                                                               *)
C8_SetOpsAreBitwise ==
    /\ call.op = "union" =>
           BitSet(call.ret) = BitSet(call.a) \cup BitSet(call.b)
    /\ call.op = "intersection" =>
           BitSet(call.ret) = BitSet(call.a) \cap BitSet(call.b)
    /\ call.op = "difference" =>
           BitSet(call.ret) = BitSet(call.a) \ BitSet(call.b)
    /\ call.op = "symmetric_difference" =>
           BitSet(call.ret) = (BitSet(call.a) \ BitSet(call.b))
                                  \cup (BitSet(call.b) \ BitSet(call.a))

(* Table {A = 1}: the operands carry the unknown bits {1,2} and {2,3}. *)
C8_Witness ==
    /\ flags = Test
    /\ call.op = "symmetric_difference"
    /\ call.a = 6
    /\ call.b = 12
    /\ call.ret = 10

(* C9: operator agreement.  Each operator returns what the named method    *)
(* returns on the same operands, and each assigning operator leaves the    *)
(* left operand equal to that; for the generated public type and for the   *)
(* older macro.                                                            *)
C9_OperatorAgreement ==
    /\ call.op = "Public_bitor" => call.ret = Public_union(call.a, call.b)
    /\ call.op = "Public_bitand" => call.ret = Public_intersection(call.a, call.b)
    /\ call.op = "Public_sub" => call.ret = Public_difference(call.a, call.b)
    /\ call.op = "Public_bitxor" =>
           call.ret = Public_symmetric_difference(call.a, call.b)
    /\ call.op = "Public_not" => call.ret = Public_complement(flags, call.a)
    /\ call.op = "Public_bitor_assign" => self = Public_union(call.a, call.b)
    /\ call.op = "Public_bitand_assign" => self = Public_intersection(call.a, call.b)
    /\ call.op = "Public_sub_assign" => self = Public_difference(call.a, call.b)
    /\ call.op = "Public_bitxor_assign" =>
           self = Public_symmetric_difference(call.a, call.b)
    /\ call.op = "Lib_bitor" => call.ret = Lib_union(call.a, call.b)
    /\ call.op = "Lib_bitand" => call.ret = Lib_intersection(call.a, call.b)
    /\ call.op = "Lib_sub" => call.ret = Lib_difference(call.a, call.b)
    /\ call.op = "Lib_bitxor" => call.ret = Lib_symmetric_difference(call.a, call.b)
    /\ call.op = "Lib_not" => call.ret = Lib_complement(flags, call.a)
    /\ call.op = "Lib_bitor_assign" => self = Lib_union(call.a, call.b)
    /\ call.op = "Lib_bitand_assign" => self = Lib_intersection(call.a, call.b)
    /\ call.op = "Lib_sub_assign" => self = Lib_difference(call.a, call.b)
    /\ call.op = "Lib_bitxor_assign" =>
           self = Lib_symmetric_difference(call.a, call.b)

(* !x on a value with the unknown bit 3, table TestOverlapping. *)
C9_Witness ==
    /\ flags = TestOverlapping
    /\ call.op = "Lib_not"
    /\ call.a = 9
    /\ call.ret = 6

(* C10: is_all() is true exactly when every bit of the table's entries is  *)
(* set in the value, whatever unknown bits the value has; for the trait's  *)
(* is_all as for the generated ones.                                       *)
C10_IsAllIffDeclaredBitsSet ==
    call.op \in {"is_all", "Internal_is_all", "Lib_is_all"} =>
        call.ret = (Known(flags) \subseteq BitSet(call.a))

(* C11: zero flag.  For a named flag ZERO whose bits are 0: x.contains(ZERO) *)
(* is true for every x, the empty one included; ZERO.is_empty() is true;    *)
(* and inserting ZERO into x leaves x.is_empty() as it was.                 *)
C11_ZeroFlag ==
    \A i \in 1..Len(flags) :
        flags[i].bits = 0 =>
            /\ (call.op = "contains" /\ call.b = flags[i].bits) => call.ret = TRUE
            /\ (call.op = "is_empty" /\ call.a = flags[i].bits) => call.ret = TRUE
            /\ (call.op = "insert" /\ call.b = flags[i].bits) =>
                   (self = 0) = (call.a = 0)

(* TestZero: empty().contains(ZERO). *)
C11_Witness ==
    /\ flags = TestZero
    /\ call.op = "contains"
    /\ call.a = 0
    /\ call.b = 0
    /\ call.ret = TRUE

(* C12: the text round trip for signed storage types.  The text written    *)
(* for a value, also one whose leftover bits include the sign bit, parses  *)
(* with the FromHex of the signed type to the same bit pattern.            *)
C12_SignedTextRoundTrip ==
    (text.tag = "written" /\ parsed.tag # "none") => parsed = Ok(text.src)

(* C13: truncation is idempotent.  Truncating the bits that                *)
(* from_bits_truncate returned gives the same value again, in each         *)
(* implementation and also for overlapping and composite flags.            *)
C13_TruncateIdempotent ==
    /\ call.op = "from_bits_truncate" =>
           from_bits_truncate(flags, call.ret) = call.ret
    /\ call.op = "Internal_from_bits_truncate" =>
           Internal_from_bits_truncate(flags, call.ret) = call.ret
    /\ call.op = "Lib_from_bits_truncate" =>
           Lib_from_bits_truncate(flags, call.ret) = call.ret

(* TestOverlapping at 0b1111: AB | BC is kept, and kept again. *)
C13_Witness ==
    /\ flags = TestOverlapping
    /\ call.op = "Internal_from_bits_truncate"
    /\ call.bits = 15
    /\ call.ret = 7

(* C14: x.complement() is all().difference(x), the declared bits that x    *)
(* lacks, for every table, overlapping multi-bit flags included.           *)
C14_ComplementIsAllMinusSelf ==
    /\ call.op = "Internal_complement" =>
           call.ret = Internal_difference(Internal_all(flags), call.a)
    /\ call.op = "Public_not" =>
           call.ret = Public_difference(Internal_all(flags), call.a)
    /\ call.op = "Lib_complement" =>
           call.ret = Lib_difference(Lib_all(flags), call.a)

(* The entries of F with some bit, all of whose bits are set in x, in      *)
(* table order, as (name, value) pairs.                                    *)
ContainedEntries(F, x) ==
    LET keep == SelectSeq(F, LAMBDA e :
                    e.bits # 0 /\ BitSet(e.bits) \subseteq BitSet(x))
    IN  [i \in 1..Len(keep) |-> << keep[i].name, keep[i].bits >>]

RECURSIVE NamesUntilEmpty(_, _, _, _)
NamesUntilEmpty(F, x, i, rem) ==
    IF i > Len(F) \/ rem = {} THEN << >>
    ELSE IF BitSet(F[i].bits) \subseteq BitSet(x)
    THEN << << F[i].name, F[i].bits >> >>
             \o NamesUntilEmpty(F, x, i + 1, rem \ BitSet(F[i].bits))
    ELSE NamesUntilEmpty(F, x, i + 1, rem)

----------------------------------------------------------------------------
(* What a token is to a parser over the table F, told from the token       *)
(* itself.                                                                 *)
Blank(t) == t.kind = "blank"

Named(F, t) == t.kind = "name" /\ \E i \in 1..Len(F) : F[i].name = t.core

NameBits(F, t) ==
    F[CHOOSE i \in 1..Len(F) :
          F[i].name = t.core /\ \A j \in 1..(i - 1) : F[j].name # t.core].bits

Accepted(F, t) == Named(F, t) \/ (t.kind = "hex" /\ t.val \in 0..ALL)

HexChars ==
    { "0", "1", "2", "3", "4", "5", "6", "7", "8", "9",
      "a", "b", "c", "d", "e", "f", "A", "B", "C", "D", "E", "F" }

(* A hex token as the grammar has it: digits only, at least one, and a     *)
(* value of the storage width.                                             *)
HexNumber(t) ==
    /\ t.kind = "hex"
    /\ t.core # << >>
    /\ \A i \in 1..Len(t.core) : t.core[i] \in HexChars
    /\ t.val \in 0..ALL

WholeBlank(pieces) == Len(pieces) = 1 /\ Blank(pieces[1])

(* The first slot the parser comes to, all slots before it being accepted. *)
Reached(F, pieces, k) == \A j \in 1..(k - 1) : Accepted(F, pieces[j])

(* C16: from_str returns Ok(empty()) for an input that is empty or only    *)
(* whitespace, and the EmptyFlag error when a slot of a non-empty input is *)
(* empty after trimming (the first error wins: the slots before it are     *)
(* accepted ones); EmptyFlag is returned in no other case.                 *)
C16_EmptyInputAndEmptySlot ==
    text.tag = "input" =>
        /\ WholeBlank(text.pieces) => parsed = Ok(0)
        /\ \A k \in 1..Len(text.pieces) :
               (/\ ~WholeBlank(text.pieces)
                /\ Blank(text.pieces[k])
                /\ Reached(flags, text.pieces, k)) => parsed = Err(empty_flag)
        /\ parsed = Err(empty_flag) =>
               /\ ~WholeBlank(text.pieces)
               /\ \E k \in 1..Len(text.pieces) : Blank(text.pieces[k])

(* "A |" over TestFlags: a trailing separator. *)
C16_Witness ==
    /\ flags = TestFlags
    /\ text.tag = "input"
    /\ text.out = << "A", " ", "|" >>
    /\ parsed = Err(empty_flag)

TokenBits(F, t) ==
    IF t.kind = "hex" THEN BitSet(t.val)
    ELSE IF Named(F, t) THEN BitSet(NameBits(F, t))
    ELSE {}

(* C17: for an input that parses, the bits of the result are the OR of the *)
(* bits of each named token and of the number of each 0x token; bits of a  *)
(* number that match no flag are kept: "A | 0x8" over {A = 1, B = 2,       *)
(* C = 4} gives 0b1001.                                                    *)
C17_ParsedBitsAreOrOfTokens ==
    (text.tag = "input" /\ parsed.tag = "Ok" /\ ~WholeBlank(text.pieces)) =>
        /\ BitSet(parsed.val)
               = UNION {TokenBits(flags, text.pieces[k]) : k \in 1..Len(text.pieces)}
        /\ (flags = ManualFlags
                /\ text.out = << "A", " ", "|", " ", "0", "x", "8" >>) =>
               parsed.val = 9

C17_Witness ==
    /\ flags = ManualFlags
    /\ text.tag = "input"
    /\ text.out = << "A", " ", "|", " ", "0", "x", "8" >>
    /\ parsed = Ok(9)

(* C18: a token that starts with 0x is parsed as hex only: it is accepted  *)
(* when what follows 0x is one or more hex digits with a value of the      *)
(* storage width, and otherwise from_str returns InvalidHexFlag (for the   *)
(* first slot that fails).                                                 *)
C18_HexTokens ==
    text.tag = "input" =>
        \A k \in 1..Len(text.pieces) :
            (text.pieces[k].kind = "hex" /\ Reached(flags, text.pieces, k)) =>
                IF HexNumber(text.pieces[k])
                THEN parsed # Err(invalid_hex_flag(text.pieces[k].core))
                ELSE parsed = Err(invalid_hex_flag(text.pieces[k].core))

(* C19: a token without the 0x prefix is accepted only if it is, exactly   *)
(* and case-sensitively, the name of a table entry, and then it gives the  *)
(* bits of the first such entry; any other token makes from_str return     *)
(* InvalidNamedFlag (for the first slot that fails).                       *)
C19_NamedTokens ==
    text.tag = "input" =>
        \A k \in 1..Len(text.pieces) :
            (text.pieces[k].kind = "name" /\ Reached(flags, text.pieces, k)) =>
                IF Named(flags, text.pieces[k])
                THEN /\ parsed # Err(invalid_named_flag(text.pieces[k].core))
                     /\ Len(text.pieces) = 1 =>
                            parsed = Ok(NameBits(flags, text.pieces[k]))
                     /\ parsed.tag = "Ok" =>
                            BitSet(NameBits(flags, text.pieces[k]))
                                \subseteq BitSet(parsed.val)
                ELSE parsed = Err(invalid_named_flag(text.pieces[k].core))

(* "a" over TestFlags, which declares A. *)
C19_Witness ==
    /\ flags = TestFlags
    /\ text.tag = "input"
    /\ text.out = << "a" >>
    /\ parsed = Err(invalid_named_flag(<< "a" >>))

----------------------------------------------------------------------------
(* The tokens of a written text: the text between the parentheses for the  *)
(* Debug of the public type, split at "|" and trimmed.                     *)
FmtTags == {"written", "Display", "Debug", "PublicDebug"}

FmtBody(t) ==
    IF t.tag \in {"PublicDebug", "LibDebug"}
    THEN SubSeq(t.out, Len(TypeName(flags)) + 2, Len(t.out) - 1)
    ELSE t.out

WrittenTokens(t) ==
    LET pieces == split(FmtBody(t), "|")
    IN  [k \in 1..Len(pieces) |-> trim(pieces[k])]

RECURSIVE OrOfNames(_, _, _)
OrOfNames(F, toks, k) ==
    IF k = 0 THEN EMPTY
    ELSE LET named == from_name(F, toks[k])
         IN  bor(OrOfNames(F, toks, k - 1),
                 IF named.tag = "Some" THEN named.val ELSE EMPTY)

C22_ZeroFlagNeverWritten ==
    (text.tag \in FmtTags \cup {"LibDebug"} /\ text.src # EMPTY) =>
        LET toks == WrittenTokens(text)
        IN  /\ \A k \in 1..Len(toks) :
                   LET named == from_name(flags, toks[k])
                   IN  named.tag = "Some" => named.val # EMPTY
            /\ (flags = TestZero /\ text.src = 1 /\ text.tag = "PublicDebug") =>
                   text.out = << "T", "e", "s", "t", "Z", "e", "r", "o", "(", "0", "x", "1", ")" >>
            /\ (flags = ZeroFlags /\ text.src = 1 /\ text.tag = "LibDebug") =>
                   text.out = << "F", "l", "a", "g", "s", "(", "S", "O", "M", "E", ")" >>

(* C23: insert, remove and toggle leave in x the bits old | o, old & ~o    *)
(* and old ^ o, unknown bits included and nothing truncated; set(o, v) is  *)
(* insert(o) when v is true and remove(o) when it is false; after insert x *)
(* contains o, and after remove x does not intersect o.                    *)
C23_InPlaceMutators ==
    /\ call.op \in {"insert", "remove", "toggle", "set"} => self \in Bits
    /\ (call.op = "insert" \/ (call.op = "set" /\ call.value)) =>
           /\ BitSet(self) = BitSet(call.a) \cup BitSet(call.b)
           /\ contains(self, call.b)
    /\ (call.op = "remove" \/ (call.op = "set" /\ ~call.value)) =>
           /\ BitSet(self) = BitSet(call.a) \ BitSet(call.b)
           /\ ~intersects(self, call.b)
    /\ call.op = "toggle" =>
           BitSet(self) = (BitSet(call.a) \ BitSet(call.b))
                              \cup (BitSet(call.b) \ BitSet(call.a))

C23_Witness ==
    /\ flags = TestFlags
    /\ call = [op |-> "set", a |-> 15, b |-> 5, value |-> FALSE]
    /\ self = 10

(* The bits of all the items of a sequence. *)
ItemBits(items) == UNION {BitSet(items[i]) : i \in 1..Len(items)}

(* C24: from_iter(items) has the OR of the items' bits, starting from the  *)
(* empty value, and x.extend(items) ORs every item into x, unknown bits    *)
(* retained; collecting x.iter() gives x back.                             *)
C24_BulkIsUnionFold ==
    /\ call.op \in {"from_iter", "collect"} =>
           /\ call.ret \in Bits
           /\ BitSet(call.ret) = ItemBits(call.items)
    /\ call.op = "extend" =>
           /\ self \in Bits
           /\ BitSet(self) = BitSet(call.a) \cup ItemBits(call.items)
    /\ call.op = "collect" => call.ret = call.a

C24_Witness ==
    /\ call.op = "from_iter"
    /\ call.items = << 2^(Width - 1), EMPTY, 1 >>
    /\ call.ret = 2^(Width - 1) + 1

----------------------------------------------------------------------------
(* What a call c does to the cell of the Atomic, from the bits old to the  *)
(* bits new, as sets of bit positions.                                     *)
Inserts(c) == c.op = "fetch_insert" \/ (c.op = "fetch_set" /\ c.set)

Removes(c) == c.op = "fetch_remove" \/ (c.op = "fetch_set" /\ ~c.set)

Effect(c, old, new) ==
    /\ new \in Bits
    /\ c.ret = IF c.op = "store" THEN None ELSE Some(old)
    /\ c.op = "load" => new = old
    /\ c.op \in {"store", "swap"} => new = c.val
    /\ Inserts(c) => BitSet(new) = BitSet(old) \cup BitSet(c.val)
    /\ Removes(c) => BitSet(new) = BitSet(old) \ BitSet(c.val)
    /\ c.op = "fetch_toggle" =>
           BitSet(new) = (BitSet(old) \ BitSet(c.val))
                             \cup (BitSet(c.val) \ BitSet(old))

(* C25: every swap and fetch_* call on an Atomic returns the value held    *)
(* immediately before it and leaves the replacement, old | v, old & ~v or  *)
(* old ^ v (fetch_set as fetch_insert or fetch_remove); store leaves its   *)
(* operand; load returns the current value with every bit, unknown ones    *)
(* included.                                                               *)
C25_AtomicCalls ==
    [][\A t \in Threads :
           (threads[t].cur = NoCall /\ threads'[t].cur # NoCall) =>
               Effect(threads'[t].cur, atomic.bits, atomic'.bits)]_vars

C25_Witness ==
    /\ atomic = [init |-> 2^(Width - 1) + 1, bits |-> 2^(Width - 1) + 2]
    /\ threads[1].cur = NoCall
    /\ threads[1].done =
           << [op |-> "fetch_remove", val |-> 1, set |-> FALSE,
               ret |-> Some(2^(Width - 1) + 1)],
              [op |-> "fetch_toggle", val |-> 2, set |-> FALSE,
               ret |-> Some(2^(Width - 1))] >>

----------------------------------------------------------------------------
(* The calls of a thread that have taken effect, in program order.         *)
AllCalls(t) ==
    threads[t].done \o (IF threads[t].cur = NoCall THEN << >> ELSE << threads[t].cur >>)

(* One call made alone on a cell holding the bit positions old: the bit    *)
(* positions it leaves, and whether it returns what call c returned.       *)
SeqLeaves(c, old) ==
    IF c.op \in {"store", "swap"} THEN BitSet(c.val)
    ELSE IF Inserts(c) THEN old \cup BitSet(c.val)
    ELSE IF Removes(c) THEN old \ BitSet(c.val)
    ELSE IF c.op = "fetch_toggle"
    THEN (old \ BitSet(c.val)) \cup (BitSet(c.val) \ old)
    ELSE old

SeqReturns(c, old) ==
    IF c.op = "store" THEN c.ret = None
    ELSE c.ret.tag = "Some" /\ c.ret.val \in Bits /\ BitSet(c.ret.val) = old

(* The calls not yet placed (pos counts those placed of each thread) can   *)
(* be made one at a time in some order, each thread's in program order,    *)
(* on a cell holding old, so that each returns what it returned and the    *)
(* cell ends with what the Atomic now holds.                               *)
RECURSIVE Replays(_, _)
Replays(old, pos) ==
    IF \A t \in Threads : pos[t] = Len(AllCalls(t))
    THEN old = BitSet(atomic.bits)
    ELSE \E t \in Threads :
             /\ pos[t] < Len(AllCalls(t))
             /\ LET c == AllCalls(t)[pos[t] + 1]
                IN  /\ SeqReturns(c, old)
                    /\ Replays(SeqLeaves(c, old), [pos EXCEPT ![t] = @ + 1])

(* C30: the calls that threads make concurrently on one Atomic are each    *)
(* one indivisible read-modify-write: the value held and all the values    *)
(* returned are those of the calls made in some sequential order, so no    *)
(* update is lost; fetch_insert(A) and fetch_insert(B) on an empty Atomic  *)
(* end with A and B set, one returning empty and the other the flag of     *)
(* the first.                                                              *)
C30_Linearizable ==
    /\ atomic.bits \in Bits
    /\ Replays(BitSet(atomic.init), [t \in Threads |-> 0])
    /\ \A t, u \in Threads :
           ( /\ t # u
             /\ atomic.init = EMPTY
             /\ NumCalls = 2
             /\ Len(AllCalls(t)) = 1 /\ Len(AllCalls(u)) = 1
             /\ AllCalls(t)[1].op = "fetch_insert" /\ AllCalls(t)[1].val = 1
             /\ AllCalls(u)[1].op = "fetch_insert" /\ AllCalls(u)[1].val = 2 ) =>
               /\ atomic.bits = 3
               /\ \/ AllCalls(t)[1].ret = Some(empty) /\ AllCalls(u)[1].ret = Some(1)
                  \/ AllCalls(u)[1].ret = Some(empty) /\ AllCalls(t)[1].ret = Some(2)

C30_Witness ==
    /\ atomic = [init |-> EMPTY, bits |-> 3]
    /\ threads[1].cur = [op |-> "fetch_insert", val |-> 1, set |-> FALSE,
                         ret |-> Some(2)]
    /\ threads[2].done = << [op |-> "fetch_insert", val |-> 2, set |-> FALSE,
                             ret |-> Some(empty)] >>

----------------------------------------------------------------------------
(* A token the grammar does not allow, and the error that stands for it.   *)
Bad(F, t) == ~(Named(F, t) \/ HexNumber(t))

ErrorOf(t) ==
    IF Blank(t) THEN empty_flag
    ELSE IF t.kind = "hex" THEN invalid_hex_flag(t.core)
    ELSE invalid_named_flag(t.core)

FirstBad(F, pieces) ==
    CHOOSE k \in 1..Len(pieces) :
        Bad(F, pieces[k]) /\ \A j \in 1..(k - 1) : ~Bad(F, pieces[j])

(* C26: from_str goes through the tokens from left to right and stops at   *)
(* the first offending one: it returns the error of the leftmost bad       *)
(* token, one of EmptyFlag, InvalidHexFlag and InvalidNamedFlag, and no    *)
(* flags value, not even that of the valid tokens before it.               *)
C26_FirstErrorWins ==
    (text.tag \in {"input", "internal_input"} /\ ~WholeBlank(text.pieces)) =>
        IF \E k \in 1..Len(text.pieces) : Bad(flags, text.pieces[k])
        THEN parsed = Err(ErrorOf(text.pieces[FirstBad(flags, text.pieces)]))
        ELSE parsed.tag = "Ok"

----------------------------------------------------------------------------
(* The iterators in the states of the model: the kinds that yield flags    *)
(* values and may end with the leftover bits, the names iterator inside    *)
(* each, and the step in which next() was called on the live iterator.     *)
IterKinds == {"Iter", "Internal_Iter"}

NamesKinds == {"IterNames", "Internal_IterNames"}

NamesOf(it) == IF it.kind \in IterKinds THEN it.st.inner ELSE it.st

NextCalled ==
    /\ iter.kind # "none"
    /\ iter'.kind = iter.kind
    /\ iter'.last # Started
    /\ text' = text

(* The call yielded the leftover bits: the iterator became done with an    *)
(* item. *)
LeftoverYielded ==
    /\ iter.kind \in IterKinds
    /\ iter'.last.tag = "Some"
    /\ ~iter.st.done /\ iter'.st.done

NamedYielded == iter'.last.tag = "Some" /\ ~LeftoverYielded

PositionOf(F, name) == CHOOSE k \in 1..Len(F) : F[k].name = name

(* C27: both iterators yield the named items in the order of declaration:  *)
(* the index of the entry yielded grows strictly from one item to the      *)
(* next, so no entry is yielded twice and aliases with equal bits come in  *)
(* the order declared.                                                     *)
C27_StepOrder ==
    NextCalled =>
        /\ NamesOf(iter').idx >= NamesOf(iter).idx
        /\ NamedYielded =>
               LET i == NamesOf(iter').idx
                   item == yielded'[Len(yielded')]
               IN  /\ Len(yielded') = Len(yielded) + 1
                   /\ i > NamesOf(iter).idx
                   /\ i \in 1..Len(flags)
                   /\ IF iter.kind \in IterKinds
                      THEN item = flags[i].bits
                      ELSE item = << flags[i].name, flags[i].bits >>

C27_NamesInOrder ==
    iter.kind \in NamesKinds =>
        \A i, j \in 1..Len(yielded) :
            i < j => PositionOf(flags, yielded[i][1]) < PositionOf(flags, yielded[j][1])

C27_DeclarationOrder == []C27_NamesInOrder /\ [][C27_StepOrder]_vars

(* C, its alias CC and D out of the value D. *)
C27_Witness ==
    /\ flags = IterNamedFlags
    /\ iter.kind = "IterNames"
    /\ self = 2^(Width - 1) + 4
    /\ Len(yielded) = 4
    /\ yielded[2] = << << "C" >>, 4 >>
    /\ yielded[3] = << << "C", "C" >>, 4 >>
    /\ yielded[4] = << << "D" >>, 2^(Width - 1) + 4 >>

(* C28: both iterators terminate.  Over a table of n entries iter_names    *)
(* yields at most n items and iter at most n + 1; iter yields the leftover *)
(* item, with the bits of remaining(), exactly once, only when remaining() *)
(* is not zero and only after every named item; once next() has returned   *)
(* None every later call returns None.                                     *)
C28_Bounded ==
    /\ iter.kind \in NamesKinds => Len(yielded) <= Len(flags)
    /\ iter.kind \in IterKinds => Len(yielded) <= Len(flags) + 1

C28_Step ==
    NextCalled =>
        /\ iter.last = None => iter'.last = None
        /\ iter.kind \in IterKinds =>
               /\ iter.st.done => (iter'.last = None /\ iter'.st.done)
               /\ (~iter.st.done /\ iter'.st.done) =>
                      /\ iter'.last =
                             IF remaining(NamesOf(iter')) # EMPTY
                             THEN Some(remaining(NamesOf(iter')))
                             ELSE None
                      /\ IF iter.kind = "Iter"
                         THEN IterNames_next(flags, NamesOf(iter')).item = None
                         ELSE Internal_IterNames_next(flags, NamesOf(iter')).item = None
               /\ iter'.last = None => iter'.st.done

C28_Terminates == []C28_Bounded /\ [][C28_Step]_vars

(* TWO out of 0b11, then the leftover 0b1, then None. *)
C28_Witness ==
    /\ flags = TwoFlags
    /\ iter.kind = "Iter"
    /\ self = 3
    /\ yielded = << 2, 1 >>
    /\ iter.last = None
    /\ iter.st.done

----------------------------------------------------------------------------
(* The bits of a value that no flag contained in it explains, and whether  *)
(* the checked conversion refuses the value, for the generation of the     *)
(* live iterator.                                                          *)
Unexplained(F, s) == BitSet(s) \ BitSet(from_bits_truncate(F, s))

Internal_Unexplained(F, s) == BitSet(s) \ BitSet(Internal_from_bits_truncate(F, s))

HexTokens(t) ==
    LET toks == WrittenTokens(t)
    IN  {k \in 1..Len(toks) : strip_prefix(toks[k], << "0", "x" >>).tag = "Some"}

(* C29: while iter_names goes over a source s, remaining() is a subset of  *)
(* s and shares no bit with a flag already yielded; once the iterator is   *)
(* exhausted remaining() is s & ~from_bits_truncate(s).  So iter yields a  *)
(* trailing leftover item, and to_writer writes a 0x token, exactly when   *)
(* from_bits(s) is None, and the token holds the unexplained bits only:    *)
(* TWO = 0x2 at 0b11 is written "TWO | 0x1".                               *)
C29_Remaining ==
    /\ iter.kind \in NamesKinds =>
           /\ BitSet(remaining(iter.st)) \subseteq BitSet(self)
           /\ \A i \in 1..Len(yielded) :
                  BitSet(remaining(iter.st)) \cap BitSet(yielded[i][2]) = {}
           /\ iter.last = None =>
                  BitSet(remaining(iter.st)) =
                      IF iter.kind = "IterNames" THEN Unexplained(flags, self)
                      ELSE Internal_Unexplained(flags, self)
    /\ text.tag = "written" =>
           LET toks == WrittenTokens(text)
               hex == HexTokens(text)
           IN  /\ (hex # {}) <=> (from_bits(flags, text.src) = None)
               /\ \A k \in hex :
                      /\ k = Len(toks)
                      /\ \E b \in Bits :
                             /\ toks[k] = write_hex(b)
                             /\ BitSet(b) = Unexplained(flags, text.src)
               /\ (flags = TwoFlags /\ text.src = 3) => text.out = << "T", "W", "O", " ", "|", " ", "0", "x", "1" >>

C29_LeftoverStep ==
    (NextCalled /\ iter.kind \in IterKinds /\ ~iter.st.done /\ iter'.st.done) =>
        IF iter.kind = "Iter"
        THEN /\ (iter'.last.tag = "Some") <=> (from_bits(flags, self) = None)
             /\ iter'.last.tag = "Some" =>
                    BitSet(iter'.last.val) = Unexplained(flags, self)
        ELSE /\ (iter'.last.tag = "Some") <=> (Internal_from_bits(flags, self) = None)
             /\ iter'.last.tag = "Some" =>
                    BitSet(iter'.last.val) = Internal_Unexplained(flags, self)

C29_RemainingIsUnexplained == []C29_Remaining /\ [][C29_LeftoverStep]_vars

C29_Witness ==
    /\ flags = TwoFlags
    /\ self = 3
    /\ iter.kind = "Iter"
    /\ iter.st.done
    /\ yielded = << 2, 1 >>
    /\ text.tag = "written"
    /\ text.out = << "T", "W", "O", " ", "|", " ", "0", "x", "1" >>

====
